---- MODULE Spec2Model ----
(***************************************************************************)
(* Verification model of the image-translation popup:                      *)
(*   - buildSheets        (two-column best-fit tile packer)                *)
(*   - requestWithThrottle (shared last-request timestamp gate)            *)
(*   - downloadZip        (entry naming) and buildZip (archive writer)     *)
(*   - crc32 / CRC_TABLE  (checksum)                                       *)
(*   - onRun / processNormalMode / processSaverMode (batch orchestration)  *)
(* Each part has its own specification over the module's variables; the    *)
(* variables of the other parts stay at their idle values.                 *)
(***************************************************************************)
EXTENDS Integers, Sequences, FiniteSets, TLC

VARIABLES
  \* ---- buildSheets ----
  tiles,              \* the argument of buildSheets: sequence of [id, width, height]
  sortedTiles,        \* tiles still to place, height descending
  sheets,             \* finished sheets, each a sequence of placements
  sheetPlacements,    \* placements of the sheet being filled
  columns,            \* <<[heightUsed, count], [heightUsed, count]>>
  placedInThisSheet,  \* flag of the inner while loop
  packPc,             \* position in buildSheets
  packResult,         \* what buildSheets gave back to its caller
  \* ---- requestWithThrottle ----
  clock,              \* Date.now(), in ms
  lastRequestAt,      \* the module-level timestamp
  thPc,               \* per caller: position in requestWithThrottle
  wakeAt,             \* per caller: when its sleep(wait) timer is due
  apiStarts,          \* apiCall invocations so far, in order: [caller, at]
  arrived,            \* the callers that entered requestWithThrottle, in order
  apiFails,           \* rejected apiCall invocations: [caller, arrivals so far]
  \* ---- downloadZip ----
  items,              \* the argument of downloadZip: sequence of base names
  itemIdx,            \* number of items the for loop has handled
  files,              \* entry names pushed so far
  nameCount,          \* the Map key -> count
  zipInput,           \* the names handed to buildZip, <<>> before the call
  \* ---- crc32 ----
  buf,                \* the argument of crc32: a sequence of bytes
  crcIdx,             \* the loop index i
  crc,                \* the local crc
  crcPc,              \* "idle", "loop" or "returned"
  crcResult,          \* the value returned
  \* ---- buildZip ----
  zipFiles,           \* the argument of buildZip: sequence of [name, data]
  entries,            \* the entries array
  offset,             \* the running offset
  centralParts,       \* the central directory records
  centralSize,        \* their total length
  out,                \* the bytes of the returned Blob, <<>> before
  zipPc,              \* "idle", "building" or "done"
  \* ---- onRun ----
  state,              \* [total, done, running]
  runDisabled,        \* runButton.disabled
  status,             \* the text of the last setStatus
  runs,               \* the onRun calls that passed validation, in order
  zipCalls,           \* the downloadZip invocations: [run, results]
  \* ---- requestGeminiImage ----
  gemIn,              \* the call: [apiKey, pngBase64] and what fetch will give
  gemPc,              \* position in requestGeminiImage
  gemOut,             \* how the call ended: [kind, value, status]
  \* ---- getDosTime, getDosDate ----
  dosNow,             \* the Date an entry is stamped with: its local fields
  dosStamp,           \* [time, date] once packed, [time |-> -1, date |-> -1] before
  \* ---- scaleForSaver ----
  scaleImg,           \* the loaded image: [width, height]
  scaled,             \* what scaleForSaver returned, [width |-> 0, height |-> 0] before
  \* ---- buildSheets of src/popup.js (rows) ----
  rbTiles,            \* the argument tiles
  rbSorted,           \* sortedTiles
  idx,                \* index of the next tile of sortedTiles, from 0
  rows,               \* the rows of the sheet being filled: [tiles, height]
  usedHeight,         \* height taken by rows
  rbSheets,           \* sheets: the placements of every pushed sheet
  rbPc                \* "idle", "outer", "inner", "render" or "returned"

packVars == <<tiles, sortedTiles, sheets, sheetPlacements, columns,
              placedInThisSheet, packPc, packResult>>

throttleVars == <<clock, lastRequestAt, thPc, wakeAt, apiStarts, arrived,
                  apiFails>>

namesVars == <<items, itemIdx, files, nameCount, zipInput>>

crcVars == <<buf, crcIdx, crc, crcPc, crcResult>>

zipVars == <<zipFiles, entries, offset, centralParts, centralSize, out, zipPc>>

runVars == <<state, runDisabled, status, runs, zipCalls>>

geminiVars == <<gemIn, gemPc, gemOut>>

dosVars == <<dosNow, dosStamp>>

scaleVars == <<scaleImg, scaled>>

rowsVars == <<rbTiles, rbSorted, idx, rows, usedHeight, rbSheets, rbPc>>

vars == <<packVars, throttleVars, namesVars, crcVars, zipVars, runVars,
         geminiVars,
         dosVars,
         scaleVars,
         rowsVars>>

\* what the actions of one part leave alone
notPack == <<throttleVars, namesVars, crcVars, zipVars, runVars,
         geminiVars,
         dosVars,
         scaleVars,
         rowsVars>>
notThrottle == <<packVars, namesVars, crcVars, zipVars, runVars,
             geminiVars,
             dosVars,
             scaleVars,
             rowsVars>>
notNames == <<packVars, throttleVars, crcVars, zipVars, runVars,
          geminiVars,
          dosVars,
          scaleVars,
          rowsVars>>
notCrc == <<packVars, throttleVars, namesVars, zipVars, runVars,
        geminiVars,
        dosVars,
        scaleVars,
        rowsVars>>
notZip == <<packVars, throttleVars, namesVars, crcVars, runVars,
        geminiVars,
        dosVars,
        scaleVars,
        rowsVars>>
notRun == <<packVars, throttleVars, namesVars, crcVars, zipVars,
        geminiVars,
        dosVars,
        scaleVars,
        rowsVars>>
notGemini == <<packVars, throttleVars, namesVars, crcVars, zipVars, runVars,
           dosVars,
           scaleVars,
           rowsVars>>
notDos == <<packVars, throttleVars, namesVars, crcVars, zipVars, runVars, geminiVars,
        scaleVars,
        rowsVars>>
notScale == <<packVars, throttleVars, namesVars, crcVars, zipVars, runVars, geminiVars, dosVars,
          rowsVars>>
notRows == <<packVars, throttleVars, namesVars, crcVars, zipVars, runVars, geminiVars, dosVars, scaleVars>>

(***************************************************************************)
(* Generic helpers                                                         *)
(***************************************************************************)
Range(s) == {s[i] : i \in 1..Len(s)}

RECURSIVE SeqSum(_)
SeqSum(s) == IF s = <<>> THEN 0 ELSE Head(s) + SeqSum(Tail(s))

RemoveAt(s, i) == [k \in 1..(Len(s) - 1) |-> IF k < i THEN s[k] ELSE s[k + 1]]

\* Sequences over S of length lo..hi
SeqsUpTo(S, lo, hi) == UNION {[1..n -> S] : n \in lo..hi}

\* Math.floor(a / 2) for any integer a
FloorHalf(a) == IF a >= 0 THEN a \div 2 ELSE -((1 - a) \div 2)

(***************************************************************************)
(* buildSheets: layout constants                                           *)
(***************************************************************************)
maxWidth == 2048
maxHeight == 2048
cols == 2
cellWidth == 1000
rowGap == 10
gapTotal == maxWidth - cols * cellWidth
gapCount == cols - 1
baseGap == gapTotal \div gapCount
remainder == gapTotal - baseGap * gapCount
\* gapWidths[i] for the 0-based gap index i
gapWidths(i) == baseGap + (IF i < remainder THEN 1 ELSE 0)

\* mutant of xPositions: cursorX is never advanced
xPositions_NoAdvance(col) == 0

\* xPositions[col] for the 0-based column index col: the loop adds
\* cellWidth + gapWidths[c] for every column c before col
RECURSIVE xPositions(_)
xPositions(col) ==
  IF col = 0 THEN 0 ELSE xPositions(col - 1) + cellWidth + gapWidths(col - 1)

\* mutant of InsertTile: a sort that puts a tile before the tiles of its height
RECURSIVE InsertTile_Unstable(_, _)
InsertTile_Unstable(s, x) ==
  IF s = <<>> THEN <<x>>
  ELSE IF x.height >= Head(s).height THEN <<x>> \o s
       ELSE <<Head(s)>> \o InsertTile_Unstable(Tail(s), x)

\* [...tiles].sort((a, b) => b.height - a.height): Array.prototype.sort is
\* stable, so x goes after every element that is at least as tall.
RECURSIVE InsertTile(_, _)
InsertTile(s, x) ==
  IF s = <<>> THEN <<x>>
  ELSE IF x.height > Head(s).height THEN <<x>> \o s
       ELSE <<Head(s)>> \o InsertTile(Tail(s), x)

RECURSIVE SortTiles(_)
SortTiles(s) ==
  IF s = <<>> THEN <<>>
  ELSE InsertTile(SortTiles(SubSeq(s, 1, Len(s) - 1)), s[Len(s)])

\* s.placements.sort((a, b) => a.y - b.y), stable
RECURSIVE InsertPlacement(_, _)
InsertPlacement(s, p) ==
  IF s = <<>> THEN <<p>>
  ELSE IF p.y < Head(s).y THEN <<p>> \o s
       ELSE <<Head(s)>> \o InsertPlacement(Tail(s), p)

RECURSIVE SortPlacements(_)
SortPlacements(s) ==
  IF s = <<>> THEN <<>>
  ELSE InsertPlacement(SortPlacements(SubSeq(s, 1, Len(s) - 1)), s[Len(s)])

\* mutant of Candidate: the divider strip is recorded at the tile's own top
\* edge instead of the bottom edge of the tile above
Candidate_GapAtTile(cs, colIndex, tile) ==
  LET col == cs[colIndex + 1]
      gap == IF col.count > 0 THEN rowGap ELSE 0
      y == col.heightUsed + gap
  IN [colIndex |-> colIndex,
      y |-> y,
      gapStart |-> IF col.count > 0 THEN y ELSE -1,
      leftover |-> maxHeight - y - tile.height]

\* The candidate record the column loop pushes for 0-based column colIndex,
\* computed whether or not the tile fits
Candidate(cs, colIndex, tile) ==
  LET col == cs[colIndex + 1]
      gap == IF col.count > 0 THEN rowGap ELSE 0
      y == col.heightUsed + gap
      remaining == maxHeight - y
  IN [colIndex |-> colIndex,
      y |-> y,
      gapStart |-> IF col.count > 0 THEN col.heightUsed ELSE -1,  \* -1: null
      leftover |-> remaining - tile.height]

\* mutants of Admits: the strict test, the test that forgets the row gap, and
\* the test that lets an empty column take any tile
Admits_Strict(cs, colIndex, tile) == Candidate(cs, colIndex, tile).leftover > 0

Admits_IgnoresGap(cs, colIndex, tile) ==
  maxHeight - cs[colIndex + 1].heightUsed >= tile.height

Admits_EmptyColumnAlways(cs, colIndex, tile) ==
  \/ cs[colIndex + 1].count = 0
  \/ Candidate(cs, colIndex, tile).leftover >= 0

\* if (remaining >= tile.height)
Admits(cs, colIndex, tile) == Candidate(cs, colIndex, tile).leftover >= 0

\* the set of entries of the fits array
Fits(cs, tile) ==
  {Candidate(cs, c, tile) : c \in {c \in 0..(cols - 1) : Admits(cs, c, tile)}}

\* mutants of Chosen: the column with the most room left, and the higher
\* column index when leftovers are equal
Chosen_WorstFit(fits) ==
  CHOOSE f \in fits : \A g \in fits :
    \/ f.leftover > g.leftover
    \/ (f.leftover = g.leftover /\ f.colIndex <= g.colIndex)

Chosen_HigherOnTie(fits) ==
  CHOOSE f \in fits : \A g \in fits :
    \/ f.leftover < g.leftover
    \/ (f.leftover = g.leftover /\ f.colIndex >= g.colIndex)

\* fits.sort((a, b) => a.leftover - b.leftover || a.colIndex - b.colIndex)[0]
Chosen(fits) ==
  CHOOSE f \in fits : \A g \in fits :
    \/ f.leftover < g.leftover
    \/ (f.leftover = g.leftover /\ f.colIndex <= g.colIndex)

\* the placement record pushed to sheetPlacements
PlacementOf(tile, chosen) ==
  [tile |-> tile,
   x |-> xPositions(chosen.colIndex) + FloorHalf(cellWidth - tile.width),
   y |-> chosen.y,
   width |-> tile.width,
   height |-> tile.height,
   colIndex |-> chosen.colIndex,
   gapStart |-> chosen.gapStart]

\* mutant of FirstFitting: only the tallest remaining tile is tried, and the
\* sheet is closed when it does not fit
FirstFitting_HeadOnly(st, cs) ==
  IF st # <<>> /\ Fits(cs, st[1]) # {} THEN 1 ELSE 0

\* index (1-based) of the first tile of the scan that some column admits,
\* 0 when the for loop runs to its end without placing
FirstFitting(st, cs) ==
  IF \E i \in 1..Len(st) : Fits(cs, st[i]) # {}
  THEN CHOOSE i \in 1..Len(st) :
         /\ Fits(cs, st[i]) # {}
         /\ \A j \in 1..(i - 1) : Fits(cs, st[j]) = {}
  ELSE 0

EmptyColumns == [c \in 1..cols |-> [heightUsed |-> 0, count |-> 0]]

(***************************************************************************)
(* buildSheets: inputs                                                     *)
(***************************************************************************)
MaxTiles == 3
\* heights around the sheet height and at the point where two tiles and a row
\* gap fill a column exactly (1019 + 10 + 1019 = 2048)
TileHeights == {500, 1019, 2048, 2049}
\* widths below, at and above the column slot width
TileWidths == {1000, 1100}

TileShapes == [width : TileWidths, height : TileHeights]

\* the tile list with ids 1..n given to the tiles (the position in the input)
WithIds(shapes) ==
  [i \in 1..Len(shapes) |->
     [id |-> i, width |-> shapes[i].width, height |-> shapes[i].height]]

TileLists == {WithIds(sh) : sh \in SeqsUpTo(TileShapes, 0, MaxTiles)}

\* the five-tile list of the packing scenario: width 1000, heights 2048, 1024,
\* 1024, 500, 500
ScenarioTiles ==
  WithIds([i \in 1..5 |->
     [width |-> cellWidth, height |-> <<maxHeight, 1024, 1024, 500, 500>>[i]]])

NoResult == [kind |-> "pending", sheets |-> <<>>, message |-> ""]

PackIdle ==
  /\ tiles = <<>>
  /\ sortedTiles = <<>>
  /\ sheets = <<>>
  /\ sheetPlacements = <<>>
  /\ columns = EmptyColumns
  /\ placedInThisSheet = FALSE
  /\ packPc = "idle"
  /\ packResult = NoResult

\* buildSheets(tiles) is entered: lines 203-226
PackInit ==
  /\ tiles \in TileLists \cup {ScenarioTiles}
  /\ sortedTiles = SortTiles(tiles)
  /\ sheets = <<>>
  /\ sheetPlacements = <<>>
  /\ columns = EmptyColumns
  /\ placedInThisSheet = FALSE
  /\ packPc = "outer"
  /\ packResult = NoResult

(***************************************************************************)
(* buildSheets: the packing loops                                          *)
(***************************************************************************)
\* while (sortedTiles.length) { sheetPlacements = []; columns = ...;
\*   placedInThisSheet = true;
OpenSheet ==
  /\ packPc = "outer"
  /\ sortedTiles # <<>>
  /\ sheetPlacements' = <<>>
  /\ columns' = EmptyColumns
  /\ placedInThisSheet' = TRUE
  /\ packPc' = "inner"
  /\ UNCHANGED <<tiles, sortedTiles, sheets, packResult>>
  /\ UNCHANGED notPack

\* one pass of the inner while body in which the for loop finds a tile that a
\* column admits: push the placement, advance the column, splice, break
PlaceTile ==
  /\ packPc = "inner"
  /\ placedInThisSheet
  /\ sortedTiles # <<>>
  /\ FirstFitting(sortedTiles, columns) # 0
  /\ LET i == FirstFitting(sortedTiles, columns)
         tile == sortedTiles[i]
         chosen == Chosen(Fits(columns, tile))
         p == PlacementOf(tile, chosen)
     IN /\ sheetPlacements' = Append(sheetPlacements, p)
        /\ columns' = [columns EXCEPT ![chosen.colIndex + 1] =
                         [heightUsed |-> p.y + tile.height,
                          count |-> @.count + 1]]
        /\ sortedTiles' = RemoveAt(sortedTiles, i)
  /\ placedInThisSheet' = TRUE
  /\ UNCHANGED <<tiles, sheets, packPc, packResult>>
  /\ UNCHANGED notPack

\* one pass of the inner while body in which no remaining tile fits any
\* column: placedInThisSheet stays false
NoTileFits ==
  /\ packPc = "inner"
  /\ placedInThisSheet
  /\ sortedTiles # <<>>
  /\ FirstFitting(sortedTiles, columns) = 0
  /\ placedInThisSheet' = FALSE
  /\ UNCHANGED <<tiles, sortedTiles, sheets, sheetPlacements, columns,
                 packPc, packResult>>
  /\ UNCHANGED notPack

\* mutant of SealSheet: the sheet is pushed whether or not it took a tile
SealSheet_AlsoEmpty ==
  /\ packPc = "inner"
  /\ ~(placedInThisSheet /\ sortedTiles # <<>>)
  /\ sheets' = Append(sheets, sheetPlacements)
  /\ packPc' = "outer"
  /\ UNCHANGED <<tiles, sortedTiles, sheetPlacements, columns,
                 placedInThisSheet, packResult>>
  /\ UNCHANGED notPack

\* the inner while ends with placements: sheets.push({placements})
SealSheet ==
  /\ packPc = "inner"
  /\ ~(placedInThisSheet /\ sortedTiles # <<>>)
  /\ sheetPlacements # <<>>
  /\ sheets' = Append(sheets, sheetPlacements)
  /\ packPc' = "outer"
  /\ UNCHANGED <<tiles, sortedTiles, sheetPlacements, columns,
                 placedInThisSheet, packResult>>
  /\ UNCHANGED notPack

\* mutant of ThrowNoPlacement: a sheet that took no tile is dropped and the
\* outer loop goes on
ThrowNoPlacement_Retry ==
  /\ packPc = "inner"
  /\ ~(placedInThisSheet /\ sortedTiles # <<>>)
  /\ sheetPlacements = <<>>
  /\ packPc' = "outer"
  /\ UNCHANGED <<tiles, sortedTiles, sheets, sheetPlacements, columns,
                 placedInThisSheet, packResult>>
  /\ UNCHANGED notPack

\* the inner while ends without a placement: throw new Error(...)
ThrowNoPlacement ==
  /\ packPc = "inner"
  /\ ~(placedInThisSheet /\ sortedTiles # <<>>)
  /\ sheetPlacements = <<>>
  /\ packPc' = "thrown"
  /\ packResult' = [kind |-> "error", sheets |-> <<>>,
                    message |-> "tile placement failed"]
  /\ UNCHANGED <<tiles, sortedTiles, sheets, sheetPlacements, columns,
                 placedInThisSheet>>
  /\ UNCHANGED notPack

\* the outer while ends: every sheet's placements are sorted by y for
\* rendering (in place), and the sheets are returned
ReturnSheets ==
  /\ packPc = "outer"
  /\ sortedTiles = <<>>
  /\ sheets' = [k \in 1..Len(sheets) |-> SortPlacements(sheets[k])]
  /\ packPc' = "returned"
  /\ packResult' = [kind |-> "sheets", sheets |-> sheets', message |-> ""]
  /\ UNCHANGED <<tiles, sortedTiles, sheetPlacements, columns,
                 placedInThisSheet>>
  /\ UNCHANGED notPack

PackNext ==
  \/ OpenSheet
  \/ PlaceTile
  \/ NoTileFits
  \/ SealSheet
  \/ ThrowNoPlacement
  \/ ReturnSheets


(***************************************************************************)
(* buildSheets as a function of its argument, for its callers: the same    *)
(* loops, run to their end                                                 *)
(***************************************************************************)
\* the inner while loop from the columns cs and placements ps on
RECURSIVE FillSheet(_, _, _)
FillSheet(st, cs, ps) ==
  IF st = <<>> \/ FirstFitting(st, cs) = 0
  THEN [rest |-> st, placements |-> ps]
  ELSE LET i == FirstFitting(st, cs)
           chosen == Chosen(Fits(cs, st[i]))
           p == PlacementOf(st[i], chosen)
       IN FillSheet(RemoveAt(st, i),
                    [cs EXCEPT ![chosen.colIndex + 1] =
                       [heightUsed |-> p.y + st[i].height, count |-> @.count + 1]],
                    Append(ps, p))

\* the outer while loop, then the rendering pass and the return
RECURSIVE PackSheets(_, _)
PackSheets(st, done) ==
  IF st = <<>>
  THEN [kind |-> "sheets",
        sheets |-> [k \in 1..Len(done) |-> SortPlacements(done[k])],
        message |-> ""]
  ELSE LET f == FillSheet(st, EmptyColumns, <<>>)
       IN IF f.placements = <<>>
          THEN [kind |-> "error", sheets |-> <<>>,
                message |-> "tile placement failed"]
          ELSE PackSheets(f.rest, Append(done, f.placements))

buildSheets(ts) == PackSheets(SortTiles(ts), <<>>)

(***************************************************************************)
(* buildSheets: properties                                                 *)
(***************************************************************************)
HeightsFit == \A i \in 1..Len(tiles) : tiles[i].height <= maxHeight
WidthsFit == \A i \in 1..Len(tiles) : tiles[i].width <= cellWidth

\* all <<sheet, position>> pairs of a list of sheets
Slots(ss) == UNION {{<<k, j>> : j \in 1..Len(ss[k])} : k \in 1..Len(ss)}

\* rectangles [x, x+width) x [y, y+height) of p and q intersect
Overlap(p, q) ==
  /\ p.x < q.x + q.width
  /\ q.x < p.x + p.width
  /\ p.y < q.y + q.height
  /\ q.y < p.y + p.height

NoOverlapIn(ps) ==
  \A a, b \in 1..Len(ps) : a # b => ~Overlap(ps[a], ps[b])

InsideSheet(p) ==
  /\ 0 <= p.x
  /\ p.x + p.width <= maxWidth
  /\ 0 <= p.y
  /\ p.y + p.height <= maxHeight

\* C1: when every tile height is <= 2048, buildSheets never throws, and the
\* sheets it returns hold as many placements as there are input tiles, each
\* input tile in exactly one placement of exactly one sheet.
C1_PlacementComplete ==
  HeightsFit =>
    /\ packPc # "thrown"
    /\ packPc = "returned" =>
         /\ packResult.kind = "sheets"
         /\ SeqSum([k \in 1..Len(packResult.sheets) |->
                      Len(packResult.sheets[k])]) = Len(tiles)
         /\ \A i \in 1..Len(tiles) :
              Cardinality({sl \in Slots(packResult.sheets) :
                 packResult.sheets[sl[1]][sl[2]].tile = tiles[i]}) = 1

C1_Witness ==
  /\ HeightsFit
  /\ packPc = "returned"
  /\ Len(tiles) >= 3
  /\ Len(packResult.sheets) >= 2

C7_TooTallThrows ==
  ~HeightsFit =>
    /\ packPc # "returned"
    /\ packResult.kind \in {"pending", "error"}
    /\ packResult.sheets = <<>>
    /\ (packPc = "thrown" <=> packResult.kind = "error")

\* a too tall tile, thrown after other tiles were placed on an earlier sheet
C7_Witness ==
  /\ ~HeightsFit
  /\ packPc = "thrown"
  /\ packResult.kind = "error"
  /\ Len(sheets) >= 1

\* the scan order of the remaining tiles: taller first, and among tiles of one
\* height the one that came earlier in the input (ids are input positions)
InScanOrder(st) ==
  \A a, b \in 1..Len(st) :
    a < b => \/ st[a].height > st[b].height
             \/ (st[a].height = st[b].height /\ st[a].id < st[b].id)

\* where the tile with the given id sits in a list of sheets: the set of
\* <<sheet index, column, x, y>> over its placements
PositionsOf(ss, id) ==
  {<<sl[1], ss[sl[1]][sl[2]].colIndex, ss[sl[1]][sl[2]].x, ss[sl[1]][sl[2]].y>> :
     sl \in {t \in Slots(ss) : ss[t[1]][t[2]].tile.id = id}}

C13_Scenario ==
  tiles = ScenarioTiles =>
    /\ packPc # "thrown"
    /\ packPc = "returned" =>
         /\ Len(packResult.sheets) = 2
         /\ PositionsOf(packResult.sheets, 1) = {<<1, 0, 0, 0>>}
         /\ PositionsOf(packResult.sheets, 2) = {<<1, 1, 1048, 0>>}
         /\ PositionsOf(packResult.sheets, 4) = {<<1, 1, 1048, 1034>>}
         /\ PositionsOf(packResult.sheets, 5) = {<<1, 1, 1048, 1544>>}
         /\ PositionsOf(packResult.sheets, 3) = {<<2, 0, 0, 0>>}

C13_Witness ==
  /\ tiles = ScenarioTiles
  /\ packPc = "returned"
  /\ Len(packResult.sheets[1]) = 4
  /\ Len(packResult.sheets[2]) = 1

\* the tiles of a list that are taller than the sheet, by input position
TooTall(ts) == {i \in 1..Len(ts) : ts[i].height > maxHeight}

\* C14: the error raised for a too tall tile identifies that tile: some too
\* tall tile of the input is too tall in every input for which buildSheets
\* raises this same error, so that the error tells which tile it is.
C14_ErrorNamesTile ==
  (packPc = "thrown" /\ TooTall(tiles) # {}) =>
    \E i \in TooTall(tiles) :
      \A ts \in TileLists : buildSheets(ts) = packResult => i \in TooTall(ts)

MaxOf(S) == CHOOSE m \in S : \A x \in S : x <= m

\* the column c of a sheet as the placements ps leave it, read off the
\* placements themselves: rows used down to the lowest bottom edge, and the
\* number of tiles
ColumnAfter(ps, c) ==
  LET mine == {j \in 1..Len(ps) : ps[j].colIndex = c}
  IN [heightUsed |-> IF mine = {} THEN 0
                     ELSE MaxOf({ps[j].y + ps[j].height : j \in mine}),
      count |-> Cardinality(mine)]

\* rows of column c taken once a tile of height h is added below the
\* placements ps: heightUsed + (10 if count > 0 else 0) + h
UsedWith(ps, c, h) ==
  ColumnAfter(ps, c).heightUsed
    + (IF ColumnAfter(ps, c).count > 0 THEN 10 ELSE 0) + h

\* the j-th placement of ps went to an admitting column, no other admitting
\* column would have had less room left, and of two equal ones it is the lower
BestFitAt(ps, j) ==
  LET before == SubSeq(ps, 1, j - 1)
      c == ps[j].colIndex
      h == ps[j].tile.height
  IN /\ UsedWith(before, c, h) <= 2048
     /\ \A d \in (0..1) \ {c} :
          UsedWith(before, d, h) <= 2048 =>
            /\ 2048 - UsedWith(before, d, h) >= 2048 - UsedWith(before, c, h)
            /\ UsedWith(before, d, h) = UsedWith(before, c, h) => c < d

\* C15: every placement goes to a column that admits the tile at that moment
\* (heightUsed + (10 if count > 0 else 0) + height <= 2048); no other admitting
\* column of the sheet has a strictly smaller leftover, and on equal leftovers
\* the lower column index is taken. Checked for every placement of the sheet
\* being filled and of every finished sheet, in placement order.
C15_BestFit ==
  /\ \A j \in 1..Len(sheetPlacements) : BestFitAt(sheetPlacements, j)
  /\ packPc # "returned" =>
       \A sl \in Slots(sheets) : BestFitAt(sheets[sl[1]], sl[2])
  /\ packPc = "inner" =>
       \A c \in 0..1 : columns[c + 1] = ColumnAfter(sheetPlacements, c)

\* a sheet on which one placement was made with both columns admitting and
\* different leftovers, and another with both admitting and equal leftovers
C15_Witness ==
  /\ packPc = "inner"
  /\ \E j, k \in 1..Len(sheetPlacements) :
       LET hj == sheetPlacements[j].tile.height
           hk == sheetPlacements[k].tile.height
           bj == SubSeq(sheetPlacements, 1, j - 1)
           bk == SubSeq(sheetPlacements, 1, k - 1)
       IN /\ UsedWith(bj, 0, hj) <= 2048 /\ UsedWith(bj, 1, hj) <= 2048
          /\ UsedWith(bj, 0, hj) # UsedWith(bj, 1, hj)
          /\ UsedWith(bk, 0, hk) <= 2048 /\ UsedWith(bk, 1, hk) <= 2048
          /\ UsedWith(bk, 0, hk) = UsedWith(bk, 1, hk)

\* no column of the sheet with placements ps admits a tile of height h
FitsNowhere(ps, h) == \A c \in 0..1 : UsedWith(ps, c, h) > 2048

\* the tiles not on the sheets up to the k-th of ss: the ones still to place,
\* the ones on the sheet being filled and the ones on the sheets after k
LeftAfter(ss, k) ==
  Range(sortedTiles)
    \cup (IF packPc = "inner"
          THEN {sheetPlacements[j].tile : j \in 1..Len(sheetPlacements)}
          ELSE {})
    \cup {ss[sl[1]][sl[2]].tile : sl \in {t \in Slots(ss) : t[1] > k}}

\* C16: a sheet is sealed only when no tile still unplaced fits any of its
\* columns. For every sealed sheet, every tile that was not yet placed when
\* it was sealed (still remaining, or placed since on a later sheet) fails
\* heightUsed + (10 if count > 0 else 0) + height <= 2048 in each of its
\* columns; and while a sheet is being filled, a scan that places nothing is
\* the only way to close it with tiles remaining.
C16_SealedWhenFull ==
  /\ \A k \in 1..Len(sheets) :
       \A t \in LeftAfter(sheets, k) : FitsNowhere(sheets[k], t.height)
  /\ \A k \in 1..Len(packResult.sheets) :
       \A sl \in Slots(packResult.sheets) :
         sl[1] > k =>
           FitsNowhere(packResult.sheets[k],
                       packResult.sheets[sl[1]][sl[2]].tile.height)
  /\ (packPc = "inner" /\ ~placedInThisSheet) =>
       \A i \in 1..Len(sortedTiles) :
         FitsNowhere(sheetPlacements, sortedTiles[i].height)

\* a returned packing in which a tile was passed over for shorter ones: a
\* sheet holds a tile shorter than a tile of a later sheet
C16_Witness ==
  /\ packPc = "returned"
  /\ \E a, b \in Slots(packResult.sheets) :
       /\ a[1] < b[1]
       /\ packResult.sheets[a[1]][a[2]].tile.height
            < packResult.sheets[b[1]][b[2]].tile.height

\* positions before j in ps of the placements in the column of ps[j]
AboveInColumn(ps, j) == {i \in 1..(j - 1) : ps[i].colIndex = ps[j].colIndex}

\* the rows [g, g + 10) of a divider strip and the rows [y, y + height) of a
\* placement have a row in common
StripMeets(g, q) == g < q.y + q.height /\ q.y < g + 10

\* the columns of one sheet are stacked as C17 says (gapStart -1 is null)
StackedColumns(ps) ==
  \A j \in 1..Len(ps) :
    /\ AboveInColumn(ps, j) = {} => (ps[j].y = 0 /\ ps[j].gapStart = -1)
    /\ AboveInColumn(ps, j) # {} =>
         LET prev == ps[MaxOf(AboveInColumn(ps, j))]
         IN /\ ps[j].gapStart = prev.y + prev.height
            /\ ps[j].y = ps[j].gapStart + 10
            /\ \A i \in 1..Len(ps) :
                 ps[i].colIndex = ps[j].colIndex => ~StripMeets(ps[j].gapStart, ps[i])

\* C17: in every column of every sheet, the first tile has y = 0 and no
\* gapStart; every later tile has gapStart at the bottom edge of the tile
\* placed before it in the column and y = gapStart + 10; and no divider strip
\* [gapStart, gapStart + 10) shares a row with a tile of its column. Checked
\* on the sheet being filled, on the finished sheets and on the returned ones
\* (after the rendering pass has sorted them by y).
C17_ColumnStacking ==
  /\ StackedColumns(sheetPlacements)
  /\ \A k \in 1..Len(sheets) : StackedColumns(sheets[k])
  /\ \A k \in 1..Len(packResult.sheets) : StackedColumns(packResult.sheets[k])

\* a returned sheet with three tiles in one column, the third under a strip
\* at 1010
C17_Witness ==
  /\ packPc = "returned"
  /\ \E k \in 1..Len(packResult.sheets) :
       LET ps == packResult.sheets[k]
       IN \E j \in 1..Len(ps) :
            /\ Cardinality(AboveInColumn(ps, j)) = 2
            /\ ps[j].gapStart = 1010
            /\ ps[j].y = 1020

\* the tiles placed on the finished sheets
PlacedOnSheets == SeqSum([k \in 1..Len(sheets) |-> Len(sheets[k])])

\* C18: for every tile list, with or without a tile taller than the sheet,
\* buildSheets comes to an end, returning sheets or throwing; and every pass
\* of the outer loop that does not throw leaves fewer tiles remaining than
\* there were when its sheet was opened.
C18_Terminates ==
  /\ <>(packPc \in {"returned", "thrown"})
  /\ [][(packPc = "inner" /\ packPc' # "inner") =>
          \/ packPc' = "thrown"
          \/ /\ packPc' = "outer"
             /\ Len(sortedTiles') < Len(tiles) - PlacedOnSheets]_vars

\* the run ended by throwing with two tiles still remaining, after one sheet
\* was filled
C18_Witness ==
  /\ packPc = "thrown"
  /\ Len(sheets) = 1
  /\ Len(sortedTiles) = 2
  /\ TooTall(tiles) # {}

(***************************************************************************)
(* requestWithThrottle                                                     *)
(***************************************************************************)
REQUEST_INTERVAL_MS == 3300

NumCallers == 3
\* the clock advances in steps of Quantum ms, at most MaxTicks times
Quantum == 1100
MaxTicks == 7
\* Date.now() when the first request arrives: far more than 3300 ms after the
\* epoch, which is what the initial lastRequestAt = 0 stands for
StartClocks == {1000000}

Callers == 1..NumCallers

Max(a, b) == IF a >= b THEN a ELSE b

\* const wait = Math.max(0, REQUEST_INTERVAL_MS - (now - lastRequestAt))
WaitFor(now, last) == Max(0, REQUEST_INTERVAL_MS - (now - last))

ThrottleIdle ==
  /\ clock = 0
  /\ lastRequestAt = 0
  /\ thPc = <<>>
  /\ wakeAt = <<>>
  /\ apiStarts = <<>>
  /\ arrived = <<>>
  /\ apiFails = <<>>

ThrottleInit ==
  /\ clock \in StartClocks
  /\ lastRequestAt = 0
  /\ thPc = [c \in Callers |-> "idle"]
  /\ wakeAt = [c \in Callers |-> 0]
  /\ apiStarts = <<>>
  /\ arrived = <<>>
  /\ apiFails = <<>>

\* time passes
Tick ==
  /\ \E c \in Callers : thPc[c] \in {"idle", "sleeping", "calling"}
  /\ \E s \in StartClocks : clock + Quantum <= s + MaxTicks * Quantum
  /\ clock' = clock + Quantum
  /\ UNCHANGED <<lastRequestAt, thPc, wakeAt, apiStarts, arrived, apiFails>>
  /\ UNCHANGED notThrottle

\* requestWithThrottle is entered with wait = 0: apiCall() starts at once
ArriveNoWait(c) ==
  /\ thPc[c] = "idle"
  /\ WaitFor(clock, lastRequestAt) = 0
  /\ thPc' = [thPc EXCEPT ![c] = "calling"]
  /\ apiStarts' = Append(apiStarts, [caller |-> c, at |-> clock])
  /\ arrived' = Append(arrived, c)
  /\ UNCHANGED <<clock, lastRequestAt, wakeAt, apiFails>>
  /\ UNCHANGED notThrottle

\* requestWithThrottle is entered with wait > 0: await sleep(wait)
ArriveSleep(c) ==
  /\ thPc[c] = "idle"
  /\ WaitFor(clock, lastRequestAt) > 0
  /\ thPc' = [thPc EXCEPT ![c] = "sleeping"]
  /\ wakeAt' = [wakeAt EXCEPT ![c] = clock + WaitFor(clock, lastRequestAt)]
  /\ arrived' = Append(arrived, c)
  /\ UNCHANGED <<clock, lastRequestAt, apiStarts, apiFails>>
  /\ UNCHANGED notThrottle

\* the timer of sleep(wait) fires, not before it is due and not before a
\* timer that is due earlier; apiCall() starts
Wake(c) ==
  /\ thPc[c] = "sleeping"
  /\ clock >= wakeAt[c]
  /\ \A d \in Callers : thPc[d] = "sleeping" => wakeAt[c] <= wakeAt[d]
  /\ thPc' = [thPc EXCEPT ![c] = "calling"]
  /\ apiStarts' = Append(apiStarts, [caller |-> c, at |-> clock])
  /\ UNCHANGED <<clock, lastRequestAt, wakeAt, arrived, apiFails>>
  /\ UNCHANGED notThrottle

\* apiCall() resolves: lastRequestAt = Date.now(); return result
CallResolves(c) ==
  /\ thPc[c] = "calling"
  /\ lastRequestAt' = clock
  /\ thPc' = [thPc EXCEPT ![c] = "done"]
  /\ UNCHANGED <<clock, wakeAt, apiStarts, arrived, apiFails>>
  /\ UNCHANGED notThrottle

\* apiCall() rejects: the await throws, lastRequestAt is not assigned
CallRejects(c) ==
  /\ thPc[c] = "calling"
  /\ thPc' = [thPc EXCEPT ![c] = "failed"]
  /\ apiFails' = Append(apiFails, [caller |-> c, arrivals |-> Len(arrived)])
  /\ UNCHANGED <<clock, lastRequestAt, wakeAt, apiStarts, arrived>>
  /\ UNCHANGED notThrottle

ThrottleNext ==
  \/ Tick
  \/ \E c \in Callers : ArriveNoWait(c)
  \/ \E c \in Callers : ArriveSleep(c)
  \/ \E c \in Callers : Wake(c)
  \/ \E c \in Callers : CallResolves(c)
  \/ \E c \in Callers : CallRejects(c)

(***************************************************************************)
(* requestWithThrottle: properties                                         *)
(***************************************************************************)
\* C4: the start instants of any two apiCall invocations are at least
\* REQUEST_INTERVAL_MS apart.
C4_MinSpacing ==
  \A a, b \in 1..Len(apiStarts) :
    a < b => apiStarts[b].at - apiStarts[a].at >= REQUEST_INTERVAL_MS

\* position of caller c in the arrival order
ArrivalOf(c) == CHOOSE k \in 1..Len(arrived) : arrived[k] = c

\* C12: apiCall invocations start in the order in which their callers entered
\* requestWithThrottle: of two started calls the one that started first
\* arrived first, and a caller that has arrived and not yet started has no
\* later arrival started before it.
C12_ArrivalOrder ==
  /\ \A a, b \in 1..Len(apiStarts) :
       a < b => ArrivalOf(apiStarts[a].caller) < ArrivalOf(apiStarts[b].caller)
  /\ \A c \in Callers :
       thPc[c] = "sleeping" =>
         \A a \in 1..Len(apiStarts) :
           ArrivalOf(apiStarts[a].caller) < ArrivalOf(c)

\* the instant at which the apiCall of caller c started
StartOf(c) ==
  apiStarts[CHOOSE k \in 1..Len(apiStarts) : apiStarts[k].caller = c].at

\* C21: after an apiCall has rejected, every call made through
\* requestWithThrottle from then on (every caller that arrived after the
\* rejection) starts its apiCall at least REQUEST_INTERVAL_MS after the failed
\* attempt, counted from the instant the failed attempt started.
C21_SpacingAfterFailure ==
  \A f \in 1..Len(apiFails) :
    \A k \in 1..Len(apiStarts) :
      ArrivalOf(apiStarts[k].caller) > apiFails[f].arrivals =>
        apiStarts[k].at - StartOf(apiFails[f].caller) >= REQUEST_INTERVAL_MS

(***************************************************************************)
(* downloadZip: entry names                                                *)
(***************************************************************************)
MaxItems == 3
\* base names as stripExtension leaves them: repeated ones, one that ends in
\* a numeric suffix, one that ends in the translation suffix
BaseNames == {"a", "b", "a-1", "a-(translate)"}

\* nameCount.get(key) || 0
CountOf(nc, key) == IF key \in DOMAIN nc THEN nc[key] ELSE 0

\* the name withUniqueName(base, suffix) returns under the map nc
UniqueName(nc, base, suffix) ==
  LET key == base \o suffix
      count == CountOf(nc, key)
  IN IF count = 0 THEN key \o ".png"
     ELSE key \o "-" \o ToString(count) \o ".png"

\* the map after withUniqueName(base, suffix): nameCount.set(key, count + 1)
Counted(nc, base, suffix) ==
  LET key == base \o suffix
  IN [k \in DOMAIN nc \cup {key} |->
        IF k = key THEN CountOf(nc, key) + 1 ELSE nc[k]]

NamesIdle ==
  /\ items = <<>>
  /\ itemIdx = 0
  /\ files = <<>>
  /\ nameCount = <<>>
  /\ zipInput = <<>>

NamesInit ==
  /\ items \in SeqsUpTo(BaseNames, 1, MaxItems)
  /\ itemIdx = 0
  /\ files = <<>>
  /\ nameCount = <<>>
  /\ zipInput = <<>>

\* one iteration of for (const item of items)
NameItem ==
  /\ zipInput = <<>>
  /\ itemIdx < Len(items)
  /\ LET base == items[itemIdx + 1]
         originalName == UniqueName(nameCount, base, "")
         nc1 == Counted(nameCount, base, "")
         translatedName == UniqueName(nc1, base, "-(translate)")
     IN /\ files' = files \o <<originalName, translatedName>>
        /\ nameCount' = Counted(nc1, base, "-(translate)")
  /\ itemIdx' = itemIdx + 1
  /\ UNCHANGED <<items, zipInput>>
  /\ UNCHANGED notNames

\* const zipBlob = await buildZip(files)
HandToBuildZip ==
  /\ zipInput = <<>>
  /\ itemIdx = Len(items)
  /\ files # <<>>
  /\ zipInput' = files
  /\ UNCHANGED <<items, itemIdx, files, nameCount>>
  /\ UNCHANGED notNames

NamesNext ==
  \/ NameItem
  \/ HandToBuildZip

(***************************************************************************)
(* downloadZip: properties                                                 *)
(***************************************************************************)
\* C5: the entry names handed to buildZip are pairwise distinct.
C5_DistinctNames ==
  \A a, b \in 1..Len(zipInput) : a # b => zipInput[a] # zipInput[b]

(***************************************************************************)
(* 32-bit numbers                                                          *)
(*                                                                         *)
(* A number n in -2^31 .. 2^32 - 1 is the pair <<hi, lo>> with             *)
(* n = hi * 65536 + lo, 0 <= lo < 65536 and -32768 <= hi < 65536: an int32 *)
(* has hi < 32768 and a uint32 has hi >= 0.                                *)
(***************************************************************************)
Half == 256 * 256

RECURSIVE Pow2(_)
Pow2(n) == IF n = 0 THEN 1 ELSE 2 * Pow2(n - 1)

\* bitwise exclusive or of two naturals
RECURSIVE XorNat(_, _)
XorNat(a, b) ==
  IF a = 0 THEN b
  ELSE IF b = 0 THEN a
  ELSE ((a + b) % 2) + 2 * XorNat(a \div 2, b \div 2)

\* ToUint32 and ToInt32 of ECMAScript
ToUint32(w) == <<w[1] % Half, w[2]>>
ToInt32(w) ==
  LET h == w[1] % Half IN <<IF h >= Half \div 2 THEN h - Half ELSE h, w[2]>>

\* a ^ b: both operands as int32, the result an int32
JsXor(a, b) ==
  ToInt32(<<XorNat(a[1] % Half, b[1] % Half), XorNat(a[2], b[2])>>)

\* a >>> n for 0 <= n < 16: the operand as uint32, the result a uint32
JsUshr(a, n) ==
  LET h == a[1] % Half
  IN <<h \div Pow2(n), (a[2] \div Pow2(n)) + (h % Pow2(n)) * Pow2(16 - n)>>

\* a & 0xff and a & 1, as plain naturals
JsAnd255(a) == a[2] % 256
JsAnd1(a) == a[2] % 2

\* a small natural as a 32-bit number
Num(n) == <<n \div Half, n % Half>>

MinusOne == <<-1, Half - 1>>

IsUint32(w) == w[1] \in 0..(Half - 1) /\ w[2] \in 0..(Half - 1)

(***************************************************************************)
(* crc32 and CRC_TABLE                                                     *)
(***************************************************************************)
\* 0xedb88320
Poly == <<60856, 33568>>

\* k more rounds of: c = c & 1 ? 0xedb88320 ^ (c >>> 1) : c >>> 1
RECURSIVE TableRounds(_, _)
TableRounds(c, k) ==
  IF k = 0 THEN c
  ELSE TableRounds(IF JsAnd1(c) = 1 THEN JsXor(Poly, JsUshr(c, 1))
                   ELSE JsUshr(c, 1), k - 1)

\* table[i] = c >>> 0, stored in a Uint32Array
CRC_TABLE == [i \in 0..255 |-> ToUint32(JsUshr(TableRounds(Num(i), 8), 0))]

\* mutant of CrcRound: the sign-propagating shift >> in place of >>>
CrcRound_SignedShift(c, b) ==
  LET sh == JsUshr(c, 8)
      signed == IF ToInt32(c)[1] < 0 THEN <<sh[1] + 65280, sh[2]>> ELSE sh
  IN JsXor(signed, CRC_TABLE[JsAnd255(JsXor(c, Num(b)))])

\* crc = (crc >>> 8) ^ CRC_TABLE[(crc ^ buf[i]) & 0xff]
CrcRound(c, b) == JsXor(JsUshr(c, 8), CRC_TABLE[JsAnd255(JsXor(c, Num(b)))])

\* mutant of CrcFinal: the final >>> 0 is left out
CrcFinal_Signed(c) == JsXor(c, MinusOne)

\* return (crc ^ -1) >>> 0
CrcFinal(c) == JsUshr(JsXor(c, MinusOne), 0)

\* crc32(buf) as a function of the whole buffer
RECURSIVE CrcLoop(_, _)
CrcLoop(c, bytes) ==
  IF bytes = <<>> THEN c
  ELSE LET next == CrcRound(c, Head(bytes))
       IN IF IsUint32(ToUint32(next))   \* next is computed before the call
          THEN CrcLoop(next, Tail(bytes)) ELSE next

crc32(bytes) == CrcFinal(CrcLoop(MinusOne, bytes))

MaxBufLen == 3
\* later bytes of the inputs: the extremes, a high-bit byte, an ASCII letter
ByteSample == {0, 1, 97, 128, 255}
\* the ASCII digits "123456789", whose CRC-32 is the published check value
CheckString == <<49, 50, 51, 52, 53, 54, 55, 56, 57>>

\* every first byte, followed by up to MaxBufLen - 1 sample bytes
CrcInputs ==
  {<<>>, CheckString}
    \cup {<<b>> \o t : b \in 0..255, t \in SeqsUpTo(ByteSample, 0, MaxBufLen - 1)}

CrcIdle ==
  /\ buf = <<>>
  /\ crcIdx = 0
  /\ crc = MinusOne
  /\ crcPc = "idle"
  /\ crcResult = <<0, 0>>

\* crc32(buf) is entered: let crc = -1
CrcInit ==
  /\ buf \in CrcInputs
  /\ crcIdx = 0
  /\ crc = MinusOne
  /\ crcPc = "loop"
  /\ crcResult = <<0, 0>>

\* one iteration of the for loop
CrcStep ==
  /\ crcPc = "loop"
  /\ crcIdx < Len(buf)
  /\ crc' = CrcRound(crc, buf[crcIdx + 1])
  /\ crcIdx' = crcIdx + 1
  /\ UNCHANGED <<buf, crcPc, crcResult>>
  /\ UNCHANGED notCrc

\* the loop is over: return
CrcReturn ==
  /\ crcPc = "loop"
  /\ crcIdx = Len(buf)
  /\ crcResult' = CrcFinal(crc)
  /\ crcPc' = "returned"
  /\ UNCHANGED <<buf, crcIdx, crc>>
  /\ UNCHANGED notCrc

CrcNext ==
  \/ CrcStep
  \/ CrcReturn

(***************************************************************************)
(* crc32: properties                                                       *)
(***************************************************************************)
\* The reflected CRC-32 computed bit by bit on unsigned 32-bit patterns:
\* register all ones, each byte xored into the low bits and followed by eight
\* shift-and-conditionally-xor rounds with 0xEDB88320, final xor all ones.
AllOnes == <<Half - 1, Half - 1>>

XorU(a, b) == <<XorNat(a[1], b[1]), XorNat(a[2], b[2])>>

ShrU1(a) == <<a[1] \div 2, (a[2] \div 2) + (a[1] % 2) * (Half \div 2)>>

RECURSIVE BitRounds(_, _)
BitRounds(r, k) ==
  IF k = 0 THEN r
  ELSE BitRounds(IF r[2] % 2 = 1 THEN XorU(ShrU1(r), Poly) ELSE ShrU1(r), k - 1)

RECURSIVE BitwiseLoop(_, _)
BitwiseLoop(r, bytes) ==
  IF bytes = <<>> THEN r
  ELSE LET next == BitRounds(XorU(r, <<0, Head(bytes)>>), 8)
       IN IF IsUint32(next)             \* next is computed before the call
          THEN BitwiseLoop(next, Tail(bytes)) ELSE next

BitwiseCrc32(bytes) == XorU(BitwiseLoop(AllOnes, bytes), AllOnes)

\* C10: the value crc32 returns equals the bit-by-bit reflected CRC-32
\* (polynomial 0xEDB88320, initial value and final xor 0xFFFFFFFF), lies in
\* 0 .. 2^32 - 1, is 0 for the empty sequence and is the published check
\* value 0xCBF43926 for "123456789".
C10_CrcMatchesBitwise ==
  crcPc = "returned" =>
    /\ crcResult = BitwiseCrc32(buf)
    /\ IsUint32(crcResult)
    /\ (buf = <<>> => crcResult = <<0, 0>>)
    /\ (buf = CheckString => crcResult = <<52212, 14630>>)

C10_Witness ==
  /\ crcPc = "returned"
  /\ Len(buf) = 3
  /\ buf[1] = 255
  /\ crcResult[1] >= Half \div 2

(***************************************************************************)
(* buildZip                                                                *)
(***************************************************************************)
RECURSIVE Flatten(_)
Flatten(ss) == IF ss = <<>> THEN <<>> ELSE Head(ss) \o Flatten(Tail(ss))

\* bitwise or of two naturals
RECURSIVE OrNat(_, _)
OrNat(a, b) ==
  IF a = 0 THEN b
  ELSE IF b = 0 THEN a
  ELSE (IF a % 2 = 1 \/ b % 2 = 1 THEN 1 ELSE 0) + 2 * OrNat(a \div 2, b \div 2)

\* DataView.setUint16(_, n, true): the low 16 bits, little-endian
LE16(n) == <<n % 256, (n \div 256) % 256>>

\* DataView.setUint32(_, n, true) for a natural n below 2^31
LE32(n) ==
  <<n % 256, (n \div 256) % 256, (n \div Half) % 256, (n \div (256 * Half)) % 256>>

\* DataView.setUint32(_, w, true) for a 32-bit number w
LE32W(w) ==
  LET u == ToUint32(w) IN <<u[2] % 256, u[2] \div 256, u[1] % 256, u[1] \div 256>>

\* TextEncoder.encode of one code point (no lone surrogates among the names)
Utf8Of(cp) ==
  IF cp < 128 THEN <<cp>>
  ELSE IF cp < 2048 THEN <<192 + (cp \div 64), 128 + (cp % 64)>>
  ELSE IF cp < Half
    THEN <<224 + (cp \div 4096), 128 + ((cp \div 64) % 64), 128 + (cp % 64)>>
  ELSE <<240 + (cp \div 262144), 128 + ((cp \div 4096) % 64),
         128 + ((cp \div 64) % 64), 128 + (cp % 64)>>

\* encoder.encode(file.name)
RECURSIVE Utf8Encode(_)
Utf8Encode(name) ==
  IF name = <<>> THEN <<>> ELSE Utf8Of(Head(name)) \o Utf8Encode(Tail(name))

\* getDosTime(d)
getDosTime(d) ==
  OrNat(OrNat(d.hours * Pow2(11), d.minutes * Pow2(5)), d.seconds \div 2)

\* mutant of getDosDate: the month is taken as getMonth() gives it
getDosDate_MonthFromZero(d) ==
  OrNat(OrNat((d.year - 1980) * Pow2(9), d.month * Pow2(5)), d.day)

\* getDosDate(d), d.month being getMonth() (0 .. 11)
getDosDate(d) ==
  OrNat(OrNat((d.year - 1980) * Pow2(9), (d.month + 1) * Pow2(5)), d.day)

\* mutant of LocalHeader: the general-purpose flag is left at 0
LocalHeader_NoUtf8Flag(nameBytes, c, dosTime, dosDate, dataLen) ==
  LE32(67324752) \o LE16(20) \o LE16(0) \o LE16(0) \o LE16(dosTime)
    \o LE16(dosDate) \o LE32W(c) \o LE32(dataLen) \o LE32(dataLen)
    \o LE16(Len(nameBytes)) \o LE16(0) \o nameBytes

\* the 30 + nameBytes.length bytes of localHeader
LocalHeader(nameBytes, c, dosTime, dosDate, dataLen) ==
  LE32(67324752)           \* 0x04034b50
    \o LE16(20)
    \o LE16(2048)          \* 0x0800, UTF-8 flag
    \o LE16(0)
    \o LE16(dosTime)
    \o LE16(dosDate)
    \o LE32W(c)
    \o LE32(dataLen)
    \o LE32(dataLen)
    \o LE16(Len(nameBytes))
    \o LE16(0)
    \o nameBytes

\* mutant of CentralRecord: the offset written is where the entry ends, the
\* value of offset after the entry was added
CentralRecord_OffsetAfter(entry) ==
  LE32(33639248) \o LE16(20) \o LE16(20) \o LE16(2048) \o LE16(0)
    \o LE16(entry.dosTime) \o LE16(entry.dosDate) \o LE32W(entry.crc)
    \o LE32(Len(entry.data)) \o LE32(Len(entry.data))
    \o LE16(Len(entry.nameBytes)) \o LE16(0) \o LE16(0) \o LE16(0) \o LE16(0)
    \o LE32(0)
    \o LE32(entry.localHeaderOffset + Len(entry.localHeader) + Len(entry.data))
    \o entry.nameBytes

\* the 46 + nameBytes.length bytes of a central directory record
CentralRecord(entry) ==
  LE32(33639248)           \* 0x02014b50
    \o LE16(20)
    \o LE16(20)
    \o LE16(2048)          \* 0x0800, UTF-8 flag
    \o LE16(0)
    \o LE16(entry.dosTime)
    \o LE16(entry.dosDate)
    \o LE32W(entry.crc)
    \o LE32(Len(entry.data))
    \o LE32(Len(entry.data))
    \o LE16(Len(entry.nameBytes))
    \o LE16(0)
    \o LE16(0)
    \o LE16(0)
    \o LE16(0)
    \o LE32(0)
    \o LE32(entry.localHeaderOffset)
    \o entry.nameBytes

\* mutant of EndRecord: the directory length and offset fields are swapped
EndRecord_Swapped(count, size, off) ==
  LE32(101010256) \o LE16(0) \o LE16(0) \o LE16(count) \o LE16(count)
    \o LE32(off) \o LE32(size) \o LE16(0)

\* the 22 bytes of endRecord
EndRecord(count, size, off) ==
  LE32(101010256)          \* 0x06054b50
    \o LE16(0)
    \o LE16(0)
    \o LE16(count)
    \o LE16(count)
    \o LE32(size)
    \o LE32(off)
    \o LE16(0)

\* mutant of NextOffset: the header length is forgotten
NextOffset_DataOnly(off, localHeader, data) == off + Len(data)

\* offset += localHeader.length + data.length
NextOffset(off, localHeader, data) == off + Len(localHeader) + Len(data)

MaxEntries == 2
\* names as sequences of code points: "a", an accented letter (2 bytes in
\* UTF-8) and a Hangul syllable followed by ".p" (3 + 2 bytes)
NameSample == {<<97>>, <<233>>, <<54620, 46, 112>>}
DataSample == {<<>>, <<0>>, <<255, 1>>}
\* "a.png" and "a-(translate).png"
NameA == <<97, 46, 112, 110, 103>>
NameATranslate ==
  <<97, 45, 40, 116, 114, 97, 110, 115, 108, 97, 116, 101, 41, 46, 112, 110, 103>>
\* the two entries of 10 and 20 bytes
ScenarioFiles ==
  <<[name |-> NameA, data |-> [i \in 1..10 |-> i]],
    [name |-> NameATranslate, data |-> [i \in 1..20 |-> 255 - i]]>>

ZipInputs ==
  {ScenarioFiles}
    \cup SeqsUpTo([name : NameSample, data : DataSample], 0, MaxEntries)

\* values of new Date(): local time fields
Dates ==
  {[year |-> 1980, month |-> 0, day |-> 1, hours |-> 0, minutes |-> 0,
    seconds |-> 0],
   [year |-> 2026, month |-> 10, day |-> 3, hours |-> 23, minutes |-> 59,
    seconds |-> 59]}

ZipIdle ==
  /\ zipFiles = <<>>
  /\ entries = <<>>
  /\ offset = 0
  /\ centralParts = <<>>
  /\ centralSize = 0
  /\ out = <<>>
  /\ zipPc = "idle"

ZipInit ==
  /\ zipFiles \in ZipInputs
  /\ entries = <<>>
  /\ offset = 0
  /\ centralParts = <<>>
  /\ centralSize = 0
  /\ out = <<>>
  /\ zipPc = "building"

\* one iteration of for (const file of files)
ZipAddFile ==
  /\ zipPc = "building"
  /\ Len(entries) < Len(zipFiles)
  /\ \E dt \in Dates, dd \in Dates :
       LET file == zipFiles[Len(entries) + 1]
           data == file.data
           nameBytes == Utf8Encode(file.name)
           c == crc32(data)
           dosTime == getDosTime(dt)
           dosDate == getDosDate(dd)
           localHeader == LocalHeader(nameBytes, c, dosTime, dosDate, Len(data))
       IN /\ entries' = Append(entries,
                 [nameBytes |-> nameBytes, data |-> data, crc |-> c,
                  dosTime |-> dosTime, dosDate |-> dosDate,
                  localHeader |-> localHeader, localHeaderOffset |-> offset])
          /\ offset' = NextOffset(offset, localHeader, data)
  /\ UNCHANGED <<zipFiles, centralParts, centralSize, out, zipPc>>
  /\ UNCHANGED notZip

\* one iteration of for (const entry of entries)
ZipAddCentral ==
  /\ zipPc = "building"
  /\ Len(entries) = Len(zipFiles)
  /\ Len(centralParts) < Len(entries)
  /\ LET central == CentralRecord(entries[Len(centralParts) + 1])
     IN /\ centralParts' = Append(centralParts, central)
        /\ centralSize' = centralSize + Len(central)
  /\ UNCHANGED <<zipFiles, entries, offset, out, zipPc>>
  /\ UNCHANGED notZip

\* endRecord is filled, out is assembled and returned as a Blob
ZipFinish ==
  /\ zipPc = "building"
  /\ Len(entries) = Len(zipFiles)
  /\ Len(centralParts) = Len(entries)
  /\ out' = Flatten([k \in 1..Len(entries) |->
                       entries[k].localHeader \o entries[k].data])
              \o Flatten(centralParts)
              \o EndRecord(Len(entries), centralSize, offset)
  /\ zipPc' = "done"
  /\ UNCHANGED <<zipFiles, entries, offset, centralParts, centralSize>>
  /\ UNCHANGED notZip

ZipNext ==
  \/ ZipAddFile
  \/ ZipAddCentral
  \/ ZipFinish

(***************************************************************************)
(* buildZip: properties                                                    *)
(*                                                                         *)
(* A reader of the archive format: it finds the end-of-archive record at   *)
(* the end of the buffer, walks the central directory from the recorded    *)
(* offset, and for each record reads the local header at the recorded      *)
(* offset and the payload of the stored size behind it.                    *)
(***************************************************************************)
\* byte at 0-based offset off, 0 outside the buffer
U8(b, off) == IF off + 1 \in 1..Len(b) THEN b[off + 1] ELSE 0
U16(b, off) == U8(b, off) + 256 * U8(b, off + 1)
\* a 32-bit field as a 32-bit number, and as a natural when it is below 2^31
U32W(b, off) == <<U16(b, off + 2), U16(b, off)>>
U32(b, off) ==
  IF U8(b, off + 3) >= 128 THEN -1 ELSE U16(b, off) + Half * U16(b, off + 2)
Slice(b, off, n) == [i \in 1..n |-> U8(b, off + i - 1)]

\* UTF-8 decoding of a name whose flag bit 11 is set
RECURSIVE Utf8Decode(_)
Utf8Decode(bs) ==
  IF bs = <<>> THEN <<>>
  ELSE LET b0 == bs[1]
           n == IF b0 < 128 THEN 1 ELSE IF b0 < 224 THEN 2
                ELSE IF b0 < 240 THEN 3 ELSE 4
           c(k) == IF k <= Len(bs) THEN bs[k] % 64 ELSE 0
           cp == IF n = 1 THEN b0
                 ELSE IF n = 2 THEN (b0 % 32) * 64 + c(2)
                 ELSE IF n = 3 THEN (b0 % 16) * 4096 + c(2) * 64 + c(3)
                 ELSE (b0 % 8) * 262144 + c(2) * 4096 + c(3) * 64 + c(4)
       IN <<cp>> \o Utf8Decode(SubSeq(bs, n + 1, Len(bs)))

\* the entry a central directory record at offset pos describes
ReadEntry(b, pos) ==
  LET nameLen == U16(b, pos + 28)
      compSize == U32(b, pos + 20)
      localOff == U32(b, pos + 42)
      localNameLen == U16(b, localOff + 26)
      localExtra == U16(b, localOff + 28)
      payloadAt == localOff + 30 + localNameLen + localExtra
  IN [ok |-> /\ U32W(b, pos) = Num(33639248)
             /\ compSize >= 0 /\ localOff >= 0
             /\ U32W(b, localOff) = Num(67324752)
             /\ U16(b, pos + 10) = 0                \* stored
             /\ U16(b, localOff + 8) = 0
             /\ U16(b, pos + 8) = 2048              \* names are UTF-8
             /\ Slice(b, localOff + 30, localNameLen) = Slice(b, pos + 46, nameLen)
             /\ payloadAt + compSize <= Len(b),
      name |-> Utf8Decode(Slice(b, pos + 46, nameLen)),
      size |-> U32(b, pos + 24),
      crc |-> U32W(b, pos + 16),
      payload |-> IF compSize >= 0 THEN Slice(b, payloadAt, compSize) ELSE <<>>,
      next |-> pos + 46 + nameLen + U16(b, pos + 30) + U16(b, pos + 32)]

\* the k entries of the central directory that starts at offset pos, followed
\* by the offset at which the directory ends
RECURSIVE ReadCentrals(_, _, _)
ReadCentrals(b, pos, k) ==
  IF k = 0 THEN <<pos>>
  ELSE <<ReadEntry(b, pos)>> \o ReadCentrals(b, ReadEntry(b, pos).next, k - 1)

ReadZip(b) ==
  LET e == Len(b) - 22
      count == U16(b, e + 10)
      cdSize == U32(b, e + 12)
      cdOff == U32(b, e + 16)
      read == IF e >= 0 /\ cdOff >= 0 /\ count <= Len(b)
              THEN ReadCentrals(b, cdOff, count) ELSE <<e>>
      n == Len(read) - 1
  IN [ok |-> /\ e >= 0
             /\ U32W(b, e) = Num(101010256)
             /\ U16(b, e + 8) = count
             /\ U16(b, e + 20) = 0
             /\ cdOff >= 0 /\ cdSize >= 0
             /\ cdOff + cdSize = e
             /\ read[n + 1] = e
             /\ \A i \in 1..n : read[i].ok,
      entries |-> SubSeq(read, 1, n)]

\* the UTF-8 length of a name
Utf8Len(name) ==
  SeqSum([i \in 1..Len(name) |->
            IF name[i] < 128 THEN 1 ELSE IF name[i] < 2048 THEN 2
            ELSE IF name[i] < Half THEN 3 ELSE 4])

\* C6: reading the finished archive (end-of-archive record, central
\* directory, local headers, payloads) gives the input entries in order,
\* with the same names, sizes and payload bytes, and every stored checksum is
\* the CRC-32 of the extracted payload.
C6_RoundTrip ==
  zipPc = "done" =>
    LET r == ReadZip(out)
    IN /\ r.ok
       /\ Len(r.entries) = Len(zipFiles)
       /\ \A i \in 1..Len(zipFiles) :
            i <= Len(r.entries) =>
              /\ r.entries[i].name = zipFiles[i].name
              /\ r.entries[i].size = Len(zipFiles[i].data)
              /\ r.entries[i].payload = zipFiles[i].data
              /\ r.entries[i].crc = BitwiseCrc32(r.entries[i].payload)

\* two entries with different multi-byte names and non-empty payloads
C6_Witness ==
  /\ zipPc = "done"
  /\ Len(zipFiles) = 2
  /\ zipFiles[1].name = <<54620, 46, 112>>
  /\ zipFiles[1].data = <<255, 1>>
  /\ zipFiles[2].name = <<233>>
  /\ zipFiles[2].data = <<0>>

\* C9: in the finished archive both count fields of the end-of-archive
\* record hold the number of entries, the directory length is the sum of
\* 46 + nameLength and the directory offset the sum of
\* 30 + nameLength + payloadLength; for "a.png" (10 bytes) and
\* "a-(translate).png" (20 bytes) the count is 2 and the offset 112.
C9_EndRecord ==
  zipPc = "done" =>
    LET e == Len(out) - 22
    IN /\ e >= 0
       /\ U32W(out, e) = Num(101010256)
       /\ U16(out, e + 8) = Len(zipFiles)
       /\ U16(out, e + 10) = Len(zipFiles)
       /\ U32(out, e + 12) =
            SeqSum([i \in 1..Len(zipFiles) |-> 46 + Utf8Len(zipFiles[i].name)])
       /\ U32(out, e + 16) =
            SeqSum([i \in 1..Len(zipFiles) |->
                      30 + Utf8Len(zipFiles[i].name) + Len(zipFiles[i].data)])
       /\ zipFiles = ScenarioFiles =>
            /\ U16(out, e + 8) = 2
            /\ U16(out, e + 10) = 2
            /\ U32(out, e + 16) = 112
            /\ U32(out, e + 16) = (30 + 5 + 10) + (30 + 17 + 20)

C9_Witness ==
  /\ zipPc = "done"
  /\ zipFiles = ScenarioFiles
  /\ Len(out) = 112 + (46 + 5) + (46 + 17) + 22

\* total size of the entries before the i-th: sum of 30 + nameLength +
\* payloadLength
SizeBefore(i) ==
  SeqSum([k \in 1..(i - 1) |->
            30 + Utf8Len(zipFiles[k].name) + Len(zipFiles[k].data)])

\* where the i-th central directory record starts in out: behind all entries
\* and the records before it
CentralAt(i) ==
  SizeBefore(Len(zipFiles) + 1)
    + SeqSum([k \in 1..(i - 1) |-> 46 + Utf8Len(zipFiles[k].name)])

\* C19: in the finished archive the local-header offset stored in the i-th
\* central directory record is the total size of the entries before i, and
\* the bytes of the archive at that offset are the local header of entry i
\* (signature 0x04034b50, version 20, flag 0x0800, method 0, the time and date
\* taken for entry i, the checksum and length of its payload, the length and
\* bytes of its name), with the payload of entry i right behind it.
C19_LocalHeaderOffsets ==
  zipPc = "done" =>
    \A i \in 1..Len(zipFiles) :
      LET off == U32(out, CentralAt(i) + 42)
          nameLen == Utf8Len(zipFiles[i].name)
          data == zipFiles[i].data
      IN /\ U32W(out, CentralAt(i)) = Num(33639248)
         /\ off = SizeBefore(i)
         /\ U32W(out, off) = Num(67324752)
         /\ U16(out, off + 4) = 20
         /\ U16(out, off + 6) = 2048
         /\ U16(out, off + 8) = 0
         /\ U16(out, off + 10) = entries[i].dosTime
         /\ U16(out, off + 12) = entries[i].dosDate
         /\ U32W(out, off + 14) = BitwiseCrc32(data)
         /\ U32(out, off + 18) = Len(data)
         /\ U32(out, off + 22) = Len(data)
         /\ U16(out, off + 26) = nameLen
         /\ U16(out, off + 28) = 0
         /\ Utf8Decode(Slice(out, off + 30, nameLen)) = zipFiles[i].name
         /\ Slice(out, off + 30 + nameLen, Len(data)) = data
         /\ off + 30 + nameLen + Len(data) = SizeBefore(i + 1)

\* two entries, the second one's header at offset 30 + 2 + 2 = 34
C19_Witness ==
  /\ zipPc = "done"
  /\ Len(zipFiles) = 2
  /\ zipFiles[1] = [name |-> <<233>>, data |-> <<255, 1>>]
  /\ zipFiles[2] = [name |-> <<97>>, data |-> <<0>>]
  /\ U32(out, CentralAt(2) + 42) = 34

\* C20: the finished archive holds exactly one central directory record per
\* entry, in entry order, between the last payload and the end-of-archive
\* record; and the i-th record and the local header of entry i both carry
\* flag 0x0800, method 0, the same time and date, the same checksum,
\* compressed size = uncompressed size = payload length, and the same name
\* length and name bytes, those of entry i.
C20_CentralMatchesLocal ==
  zipPc = "done" =>
    /\ CentralAt(Len(zipFiles) + 1) = Len(out) - 22
    /\ U32W(out, Len(out) - 22) = Num(101010256)
    /\ \A i \in 1..Len(zipFiles) :
         LET c == CentralAt(i)
             l == SizeBefore(i)
             nameLen == Utf8Len(zipFiles[i].name)
         IN /\ U32W(out, c) = Num(33639248)
            /\ U32W(out, l) = Num(67324752)
            /\ U16(out, c + 8) = 2048 /\ U16(out, l + 6) = 2048
            /\ U16(out, c + 10) = 0 /\ U16(out, l + 8) = 0
            /\ U16(out, c + 12) = U16(out, l + 10)
            /\ U16(out, c + 14) = U16(out, l + 12)
            /\ U32W(out, c + 16) = U32W(out, l + 14)
            /\ U32(out, c + 20) = Len(zipFiles[i].data)
            /\ U32(out, c + 24) = Len(zipFiles[i].data)
            /\ U32(out, l + 18) = Len(zipFiles[i].data)
            /\ U32(out, l + 22) = Len(zipFiles[i].data)
            /\ U16(out, c + 28) = nameLen /\ U16(out, l + 26) = nameLen
            /\ Slice(out, c + 46, nameLen) = Slice(out, l + 30, nameLen)
            /\ Utf8Decode(Slice(out, c + 46, nameLen)) = zipFiles[i].name

\* two entries stamped with different times and different dates
C20_Witness ==
  /\ zipPc = "done"
  /\ Len(zipFiles) = 2
  /\ U16(out, CentralAt(1) + 12) # U16(out, CentralAt(2) + 12)
  /\ U16(out, CentralAt(1) + 14) # U16(out, CentralAt(2) + 14)
  /\ U16(out, CentralAt(2) + 12) # 0

(***************************************************************************)
(* onRun, processNormalMode, processSaverMode                              *)
(*                                                                         *)
(* A run is one onRun call that passed validation.  Its tasks are the      *)
(* promises of files.map (normal mode) or sheets.map (saver mode); a task  *)
(* moves from one await to the next, and every await may reject.  Tasks of *)
(* a run that has failed keep running: nothing cancels them.               *)
(***************************************************************************)
\* files of a normal-mode run, files of a saver-mode run (three tiles of full
\* height need two sheets), clicks on the run button that pass validation
MaxFiles == 2
MaxSaverFiles == 3
MaxRuns == 1

\* what scaleForSaver returns for the images of the folder: portrait images
\* scaled to the full sheet height, two of which fill a sheet
SaverShapes == {[width |-> 700, height |-> 2048]}

\* the awaits of processSingleNormal, in order
NormalStages == <<"resizeAndPad", "blobToDataUrl", "requestWithThrottle",
                  "cropTranslated">>
\* the awaits of a sheet task before its crop loop, in order
SheetStages == <<"canvasToBlob", "blobToDataUrl", "requestWithThrottle",
                 "loadImage">>

\* the stage after pc in stages, "end" after the last one
StageAfter(stages, pc) ==
  LET i == CHOOSE j \in 1..Len(stages) : stages[j] = pc
  IN IF i = Len(stages) THEN "end" ELSE stages[i + 1]

NewTask(pc) == [pc |-> pc, k |-> 0]

\* mutant of AllResolved: the join waits for every task to settle and takes
\* the results of those that resolved (Promise.allSettled)
AllResolved_Settled(ts) == \A i \in 1..Len(ts) : ts[i].pc \in {"done", "failed"}

\* Promise.all(tasks) resolves: every task has resolved
AllResolved(ts) == \A i \in 1..Len(ts) : ts[i].pc = "done"

\* Promise.all(tasks) rejects: some task has rejected
SomeRejected(ts) == \E i \in 1..Len(ts) : ts[i].pc = "failed"

RunIdle ==
  /\ state = [total |-> 0, done |-> 0, running |-> FALSE]
  /\ runDisabled = FALSE
  /\ status = ""
  /\ runs = <<>>
  /\ zipCalls = <<>>

\* the popup is loaded: lines 12-22
RunInit == RunIdle

Current == Len(runs)

\* mutant of Caught: the catch block without the finally block
Caught_NoFinally(r) ==
  /\ runs' = [runs EXCEPT ![r].phase = "failed"]
  /\ status' = "error"
  /\ UNCHANGED <<runDisabled, state>>

\* the catch and finally blocks of onRun
Caught(r) ==
  /\ runs' = [runs EXCEPT ![r].phase = "failed"]
  /\ status' = "error"
  /\ runDisabled' = FALSE
  /\ state' = [state EXCEPT !.running = FALSE]

\* onRun with an empty API key
OnRunNoKey ==
  /\ ~runDisabled
  /\ status' = "enter the API key"
  /\ UNCHANGED <<state, runDisabled, runs, zipCalls>>
  /\ UNCHANGED notRun

\* onRun with an API key and no image file
OnRunNoFiles ==
  /\ ~runDisabled
  /\ status' = "choose an image folder"
  /\ UNCHANGED <<state, runDisabled, runs, zipCalls>>
  /\ UNCHANGED notRun

\* onRun, normal mode: lines 80-98 and files.map of processNormalMode, each
\* task running up to its first await
OnRunNormal(n) ==
  /\ ~runDisabled
  /\ state' = [total |-> n, done |-> 0, running |-> TRUE]
  /\ status' = "processing"
  /\ runDisabled' = TRUE
  /\ runs' = Append(runs,
       [mode |-> "normal", n |-> n, shapes |-> <<>>, phase |-> "processing",
        tiles |-> <<>>, sheets |-> <<>>,
        tasks |-> [i \in 1..n |-> NewTask(NormalStages[1])],
        results |-> <<>>])
  /\ UNCHANGED zipCalls
  /\ UNCHANGED notRun

\* onRun, saver mode: lines 80-98, processSaverMode up to its first await
OnRunSaver(shapes) ==
  /\ ~runDisabled
  /\ state' = [total |-> Len(shapes), done |-> 0, running |-> TRUE]
  /\ status' = "processing"
  /\ runDisabled' = TRUE
  /\ runs' = Append(runs,
       [mode |-> "saver", n |-> Len(shapes), shapes |-> shapes,
        phase |-> "prepare", tiles |-> <<>>, sheets |-> <<>>,
        tasks |-> <<>>, results |-> <<>>])
  /\ UNCHANGED zipCalls
  /\ UNCHANGED notRun

\* a task of processNormalMode gets past an await; past the last one the
\* then-callback calls onProgress and the task resolves
NormalStep(r, i) ==
  /\ runs[r].mode = "normal"
  /\ runs[r].tasks[i].pc \in Range(NormalStages)
  /\ LET nxt == StageAfter(NormalStages, runs[r].tasks[i].pc)
     IN IF nxt = "end"
        THEN /\ runs' = [runs EXCEPT ![r].tasks[i].pc = "done"]
             /\ state' = [state EXCEPT !.done = @ + 1]
        ELSE /\ runs' = [runs EXCEPT ![r].tasks[i].pc = nxt]
             /\ UNCHANGED state
  /\ UNCHANGED <<runDisabled, status, zipCalls>>
  /\ UNCHANGED notRun

\* an await of a task rejects (decode, serialization, service call or crop)
TaskFails(r, i) ==
  /\ runs[r].tasks[i].pc \notin {"done", "failed"}
  /\ runs' = [runs EXCEPT ![r].tasks[i].pc = "failed"]
  /\ UNCHANGED <<state, runDisabled, status, zipCalls>>
  /\ UNCHANGED notRun

\* processSaverMode: one file is read, decoded, scaled and serialized
SaverPrepare ==
  /\ Current > 0
  /\ runs[Current].phase = "prepare"
  /\ Len(runs[Current].tiles) < runs[Current].n
  /\ LET k == Len(runs[Current].tiles) + 1
         sh == runs[Current].shapes[k]
     IN runs' = [runs EXCEPT ![Current].tiles =
                   Append(@, [id |-> k, width |-> sh.width, height |-> sh.height])]
  /\ UNCHANGED <<state, runDisabled, status, zipCalls>>
  /\ UNCHANGED notRun

\* processSaverMode: reading, decoding or serializing a file rejects
SaverPrepareFails ==
  /\ Current > 0
  /\ runs[Current].phase = "prepare"
  /\ Len(runs[Current].tiles) < runs[Current].n
  /\ Caught(Current)
  /\ UNCHANGED zipCalls
  /\ UNCHANGED notRun

\* processSaverMode: buildSheets, the placedCount check, and sheets.map with
\* every sheet task running up to its first await
SaverPack ==
  /\ Current > 0
  /\ runs[Current].phase = "prepare"
  /\ Len(runs[Current].tiles) = runs[Current].n
  /\ LET res == buildSheets(runs[Current].tiles)
         placedCount == SeqSum([k \in 1..Len(res.sheets) |-> Len(res.sheets[k])])
     IN IF res.kind = "error" \/ placedCount # Len(runs[Current].tiles)
        THEN Caught(Current)
        ELSE /\ runs' = [runs EXCEPT
                  ![Current].phase = "processing",
                  ![Current].sheets = res.sheets,
                  ![Current].tasks =
                     [k \in 1..Len(res.sheets) |-> NewTask(SheetStages[1])]]
             /\ UNCHANGED <<state, runDisabled, status>>
  /\ UNCHANGED zipCalls
  /\ UNCHANGED notRun

\* a sheet task gets past one of the awaits before its crop loop
SheetStep(r, i) ==
  /\ runs[r].mode = "saver"
  /\ runs[r].tasks[i].pc \in Range(SheetStages)
  /\ LET nxt == StageAfter(SheetStages, runs[r].tasks[i].pc)
     IN runs' = [runs EXCEPT ![r].tasks[i] =
                   IF nxt = "end" THEN [pc |-> "cropFromCollage", k |-> 1]
                   ELSE [pc |-> nxt, k |-> 0]]
  /\ UNCHANGED <<state, runDisabled, status, zipCalls>>
  /\ UNCHANGED notRun

\* mutant of SheetCrop: every sheet task writes its k-th crop to slot k of
\* results, over what another sheet task put there
SheetCrop_BySlot(r, i) ==
  /\ runs[r].mode = "saver"
  /\ runs[r].tasks[i].pc = "cropFromCollage"
  /\ LET k == runs[r].tasks[i].k
         placement == runs[r].sheets[i][k]
         item == [tile |-> placement.tile, sheet |-> i,
                  x |-> placement.x, y |-> placement.y]
     IN runs' = [runs EXCEPT
                   ![r].results = IF k <= Len(@) THEN [@ EXCEPT ![k] = item]
                                  ELSE Append(@, item),
                   ![r].tasks[i] =
                      IF k = Len(runs[r].sheets[i]) THEN [pc |-> "done", k |-> 0]
                      ELSE [pc |-> "cropFromCollage", k |-> k + 1]]
  /\ state' = [state EXCEPT !.done = @ + 1]
  /\ UNCHANGED <<runDisabled, status, zipCalls>>
  /\ UNCHANGED notRun

\* a sheet task gets past cropFromCollage for its k-th placement: the item is
\* pushed to results and onProgress is called; after the last placement the
\* task resolves
SheetCrop(r, i) ==
  /\ runs[r].mode = "saver"
  /\ runs[r].tasks[i].pc = "cropFromCollage"
  /\ LET k == runs[r].tasks[i].k
         placement == runs[r].sheets[i][k]
         item == [tile |-> placement.tile, sheet |-> i,
                  x |-> placement.x, y |-> placement.y]
     IN runs' = [runs EXCEPT
                   ![r].results = Append(@, item),
                   ![r].tasks[i] =
                      IF k = Len(runs[r].sheets[i]) THEN [pc |-> "done", k |-> 0]
                      ELSE [pc |-> "cropFromCollage", k |-> k + 1]]
  /\ state' = [state EXCEPT !.done = @ + 1]
  /\ UNCHANGED <<runDisabled, status, zipCalls>>
  /\ UNCHANGED notRun

\* Promise.all resolves, the mode function returns its results and onRun
\* calls downloadZip(results)
RunJoin ==
  /\ Current > 0
  /\ runs[Current].phase = "processing"
  /\ AllResolved(runs[Current].tasks)
  /\ LET results == IF runs[Current].mode = "normal"
                    THEN [i \in 1..runs[Current].n |->
                            [tile |-> i, sheet |-> 0, x |-> 0, y |-> 0]]
                    ELSE runs[Current].results
     IN zipCalls' = Append(zipCalls, [run |-> Current, results |-> results])
  /\ runs' = [runs EXCEPT ![Current].phase = "zipping"]
  /\ UNCHANGED <<state, runDisabled, status>>
  /\ UNCHANGED notRun

\* Promise.all rejects: the catch and finally blocks of onRun run
RunCatch ==
  /\ Current > 0
  /\ runs[Current].phase = "processing"
  /\ SomeRejected(runs[Current].tasks)
  /\ Caught(Current)
  /\ UNCHANGED zipCalls
  /\ UNCHANGED notRun

\* downloadZip resolves: setStatus and the finally block
ZipResolves ==
  /\ Current > 0
  /\ runs[Current].phase = "zipping"
  /\ runs' = [runs EXCEPT ![Current].phase = "finished"]
  /\ status' = "complete"
  /\ runDisabled' = FALSE
  /\ state' = [state EXCEPT !.running = FALSE]
  /\ UNCHANGED zipCalls
  /\ UNCHANGED notRun

\* downloadZip rejects (blob.arrayBuffer()): catch and finally
ZipRejects ==
  /\ Current > 0
  /\ runs[Current].phase = "zipping"
  /\ Caught(Current)
  /\ UNCHANGED zipCalls
  /\ UNCHANGED notRun

\* a click on the run button that passes validation, while fewer than limit
\* runs have been started
RunStarts(limit) ==
  /\ Len(runs) < limit
  /\ \/ \E n \in 1..MaxFiles : OnRunNormal(n)
     \/ \E shapes \in SeqsUpTo(SaverShapes, 1, MaxSaverFiles) : OnRunSaver(shapes)

RunNext ==
  \/ OnRunNoKey
  \/ OnRunNoFiles
  \/ RunStarts(MaxRuns)
  \/ \E r \in 1..Len(runs) : \E i \in 1..Len(runs[r].tasks) : NormalStep(r, i)
  \/ \E r \in 1..Len(runs) : \E i \in 1..Len(runs[r].tasks) : TaskFails(r, i)
  \/ SaverPrepare
  \/ SaverPrepareFails
  \/ SaverPack
  \/ \E r \in 1..Len(runs) : \E i \in 1..Len(runs[r].tasks) : SheetStep(r, i)
  \/ \E r \in 1..Len(runs) : \E i \in 1..Len(runs[r].tasks) : SheetCrop(r, i)
  \/ RunJoin
  \/ RunCatch
  \/ ZipResolves
  \/ ZipRejects

\* the steps in which an awaited operation settles or a continuation runs:
\* every step but the clicks on the run button and SaverPack
RunAwaits ==
  \/ \E r \in 1..Len(runs) : \E i \in 1..Len(runs[r].tasks) : NormalStep(r, i)
  \/ \E r \in 1..Len(runs) : \E i \in 1..Len(runs[r].tasks) : TaskFails(r, i)
  \/ SaverPrepare
  \/ SaverPrepareFails
  \/ \E r \in 1..Len(runs) : \E i \in 1..Len(runs[r].tasks) : SheetStep(r, i)
  \/ \E r \in 1..Len(runs) : \E i \in 1..Len(runs[r].tasks) : SheetCrop(r, i)
  \/ RunJoin
  \/ RunCatch
  \/ ZipResolves
  \/ ZipRejects

\* processSaverMode has prepared every file and is about to call
\* buildSheets: the states in which SaverPack can be taken
PackReady ==
  /\ Current > 0
  /\ runs[Current].phase = "prepare"
  /\ Len(runs[Current].tiles) = runs[Current].n

\* the same steps, with one more click on the run button after the runs of
\* RunNext: a run started while tasks of an earlier run are still in flight
RerunNext ==
  \/ RunNext
  \/ RunStarts(MaxRuns + 1)

(***************************************************************************)
(* onRun: properties                                                       *)
(***************************************************************************)
\* a task of run r has failed: a rejected task of the join, or a rejected
\* await or a throw of processSaverMode before its tasks were created
TaskFailedIn(r) ==
  \/ SomeRejected(runs[r].tasks)
  \/ /\ runs[r].mode = "saver"
     /\ runs[r].phase = "failed"
     /\ runs[r].tasks = <<>>

\* C8: for a run in which a task has failed, downloadZip (and with it
\* buildZip) is never invoked, whatever the other tasks of the run did.
C8_NoArchiveAfterFailure ==
  \A r \in 1..Len(runs) :
    TaskFailedIn(r) => \A c \in 1..Len(zipCalls) : zipCalls[c].run # r

\* a saver-mode run that ended in the catch block with one sheet task rejected
\* and the other resolved, its crops pushed to results and counted
C8_Witness ==
  \E r \in 1..Len(runs) :
    /\ runs[r].mode = "saver"
    /\ runs[r].phase = "failed"
    /\ \E i, j \in 1..Len(runs[r].tasks) :
         runs[r].tasks[i].pc = "failed" /\ runs[r].tasks[j].pc = "done"
    /\ runs[r].results # <<>>
    /\ state.done > 0
    /\ ~state.running
    /\ \A c \in 1..Len(zipCalls) : zipCalls[c].run # r

\* s is a prefix of t
IsPrefix(s, t) == Len(s) <= Len(t) /\ SubSeq(t, 1, Len(s)) = s

\* the results of saver-mode run r hold one item per input tile: the tile's
\* own record, with the sheet and the crop origin that packing the run's tiles
\* gives that tile
OneItemPerTile(r) ==
  LET res == runs[r].results
      packed == buildSheets(runs[r].tiles).sheets
  IN /\ Len(res) = runs[r].n
     /\ \A t \in 1..runs[r].n :
          \E j \in 1..Len(res) :
            /\ res[j].tile = runs[r].tiles[t]
            /\ \A j2 \in 1..Len(res) : res[j2].tile.id = t => j2 = j
            /\ \E col \in 0..(cols - 1) :
                 PositionsOf(packed, t) = {<<res[j].sheet, col, res[j].x, res[j].y>>}

\* C23: when processSaverMode has completed successfully (onRun went on to
\* downloadZip), results holds exactly one item per input tile, the tile's own
\* record paired with a crop at the tile's placement on the sheet it was
\* placed on, however the sheet tasks interleaved; what downloadZip receives
\* is that collection; and no step removes or changes an item of results.
C23_OneResultPerTile ==
  /\ [](\A r \in 1..Len(runs) :
         (runs[r].mode = "saver" /\ runs[r].phase \in {"zipping", "finished"}) =>
           /\ OneItemPerTile(r)
           /\ \E c \in 1..Len(zipCalls) :
                zipCalls[c] = [run |-> r, results |-> runs[r].results])
  /\ [][\A r \in 1..Len(runs) : IsPrefix(runs[r].results, runs'[r].results)]_vars

\* three tiles on two sheets, the crops of the second sheet's task pushed
\* between the two crops of the first sheet's task
C23_Witness ==
  \E r \in 1..Len(runs) :
    /\ runs[r].mode = "saver"
    /\ runs[r].phase = "finished"
    /\ runs[r].n = 3
    /\ Len(runs[r].sheets) = 2
    /\ Len(runs[r].results) = 3
    /\ runs[r].results[1].sheet = 1
    /\ runs[r].results[2].sheet = 2
    /\ runs[r].results[3].sheet = 1

\* C22: in every reachable state, over any sequence of runs, the progress
\* counter does not exceed the number of files of the current run:
\* state.done <= state.total.
C22_DoneWithinTotal == state.done <= state.total

\* C27: every sheet buildSheets has pushed, and every sheet it returns,
\* holds at least one placement, and the number of returned sheets (one
\* service call each in processSaverMode) is at most the number of input
\* tiles.
C27_NoEmptySheet ==
  /\ \A k \in 1..Len(sheets) : sheets[k] # <<>>
  /\ Len(sheets) <= Len(tiles)
  /\ packPc = "returned" =>
       /\ \A k \in 1..Len(packResult.sheets) : packResult.sheets[k] # <<>>
       /\ Len(packResult.sheets) <= Len(tiles)

\* three tiles of full height and width: the third cannot share the
\* sheet of the first two, and two sheets are returned for three tiles
C27_Witness ==
  /\ packPc = "returned"
  /\ Len(tiles) = 3
  /\ \A i \in 1..3 : tiles[i].height = 2048
  /\ Len(packResult.sheets) = 2
  /\ Len(packResult.sheets[1]) = 2
  /\ Len(packResult.sheets[2]) = 1

\* onRun of run r is between its validation and its finally block
InProgress(r) == runs[r].phase \in {"prepare", "processing", "zipping"}

\* C28: while an onRun that passed validation is in progress,
\* state.running is true and the run button is disabled, and no other
\* onRun is in progress or is started; if every awaited operation settles,
\* a running batch leads to state.running = false with the button enabled,
\* on success and on failure; an onRun rejected by validation leaves
\* state unchanged.
C28_RunningUntilSettled ==
  /\ [](\A r \in 1..Len(runs) :
          InProgress(r) => (r = Len(runs) /\ state.running /\ runDisabled))
  /\ [][Len(runs') > Len(runs) => \A r \in 1..Len(runs) : ~InProgress(r)]_vars
  /\ [][(OnRunNoKey \/ OnRunNoFiles) => state' = state]_vars
  /\ state.running ~> (~state.running /\ ~runDisabled)

\* a second batch is in progress, after a first one that failed; and the
\* states in which a batch has ended with the button enabled again
C28_Witness ==
  /\ Len(runs) = 2
  /\ runs[1].phase = "failed"
  /\ runs[2].phase = "zipping"
  /\ state.running
  /\ runDisabled

(***************************************************************************)
(* requestGeminiImage (src/unnamed/part_000)                               *)
(*                                                                         *)
(* The response text is kept in the form parseStreamJson looks at it: a    *)
(* list of lines, each blank, unparsable, or one JSON value, with or       *)
(* without a "data:" prefix; or one JSON array spread over several lines,  *)
(* none of which parses alone.  A payload keeps what extractInlineImage    *)
(* reads: its candidates, and for each part of a candidate the string      *)
(* inlineData.data, "" when the part has none.                             *)
(***************************************************************************)
MaxLines == 2

NoPayload == [kind |-> "other", candidates |-> <<>>]

GemPayloads ==
  { NoPayload,
    [kind |-> "object", candidates |-> <<>>],
    [kind |-> "object", candidates |-> <<[parts |-> <<"img1">>]>>],
    [kind |-> "object", candidates |-> <<[parts |-> <<>>],
                                         [parts |-> <<"img2">>]>>],
    [kind |-> "object", candidates |-> <<[parts |-> <<"", "img3">>]>>] }

GemLines ==
  [prefix : BOOLEAN, kind : {"blank", "bad"}, value : {NoPayload}]
    \cup [prefix : BOOLEAN, kind : {"json"}, value : GemPayloads]

GemTexts ==
  [shape : {"lines"}, lines : SeqsUpTo(GemLines, 0, MaxLines),
   items : {<<>>}, valid : {FALSE}]
    \cup [shape : {"array"}, lines : {<<>>},
          items : SeqsUpTo(GemPayloads, 0, MaxLines), valid : BOOLEAN]

EmptyText == [shape |-> "lines", lines |-> <<>>, items |-> <<>>,
              valid |-> FALSE]

GemStatuses == {200, 204, 429, 500}

\* what fetch gives: a rejection, or a response with a status and a body
\* that is absent, fails while it is read, or delivers a text
GemResponses ==
  {[kind |-> "reject", status |-> 0, body |-> "none", text |-> EmptyText]}
    \cup [kind : {"response"}, status : GemStatuses,
          body : {"none", "error"}, text : {EmptyText}]
    \cup [kind : {"response"}, status : GemStatuses,
          body : {"text"}, text : GemTexts]

\* response.ok
Ok_Always(code) == TRUE

Ok(code) == code >= 200 /\ code <= 299

readStream(response) ==
  IF response.body = "none" THEN EmptyText ELSE response.text

IsJsonLine(line) == line.kind = "json"

parseStreamJson(rawText) ==
  IF rawText = EmptyText THEN <<>>
  ELSE LET parsedLines == SelectSeq(rawText.lines, IsJsonLine)
           payloads == [i \in 1..Len(parsedLines) |-> parsedLines[i].value]
       IN  IF payloads = <<>> /\ rawText.shape = "array" /\ rawText.valid
           THEN rawText.items
           ELSE payloads

HasData(p) == p # ""

\* item?.candidates?.[0]?.content?.parts || [], then parts.find(...)
ImageIn(item) ==
  LET parts == IF item.kind = "object" /\ Len(item.candidates) >= 1
               THEN item.candidates[1].parts
               ELSE <<>>
      hits == SelectSeq(parts, HasData)
  IN  IF hits = <<>> THEN "" ELSE hits[1]

HasImage(item) == ImageIn(item) # ""

extractInlineImage(payloads) ==
  LET found == SelectSeq(payloads, HasImage)
  IN  IF found = <<>> THEN [isNull |-> TRUE, data |-> ""]
      ELSE [isNull |-> FALSE, data |-> ImageIn(found[1])]

NoOutcome == [kind |-> "none", value |-> "", status |-> 0]

Thrown(message, code) ==
  [kind |-> "throw", value |-> message, status |-> code]

GeminiIdle ==
  /\ gemIn = [apiKey |-> FALSE, pngBase64 |-> FALSE,
              response |-> [kind |-> "reject", status |-> 0,
                            body |-> "none", text |-> EmptyText]]
  /\ gemPc = "idle"
  /\ gemOut = NoOutcome

GeminiInit ==
  /\ gemIn \in [apiKey : BOOLEAN, pngBase64 : BOOLEAN,
                response : GemResponses]
  /\ gemPc = "start"
  /\ gemOut = NoOutcome

\* if (!apiKey) throw
ThrowNoApiKey ==
  /\ gemPc = "start"
  /\ ~gemIn.apiKey
  /\ gemPc' = "done"
  /\ gemOut' = Thrown("no api key", 0)
  /\ UNCHANGED <<gemIn, notGemini>>

\* if (!pngBase64) throw
ThrowNoPng ==
  /\ gemPc = "start"
  /\ gemIn.apiKey
  /\ ~gemIn.pngBase64
  /\ gemPc' = "done"
  /\ gemOut' = Thrown("no image data", 0)
  /\ UNCHANGED <<gemIn, notGemini>>

\* await fetch(...) is issued
Fetch ==
  /\ gemPc = "start"
  /\ gemIn.apiKey
  /\ gemIn.pngBase64
  /\ gemPc' = "fetching"
  /\ UNCHANGED <<gemIn, gemOut, notGemini>>

\* fetch rejects: the await throws out of the function
FetchRejects ==
  /\ gemPc = "fetching"
  /\ gemIn.response.kind = "reject"
  /\ gemPc' = "done"
  /\ gemOut' = Thrown("fetch failed", 0)
  /\ UNCHANGED <<gemIn, notGemini>>

\* fetch resolves with a response that is not ok
ResponseNotOk ==
  /\ gemPc = "fetching"
  /\ gemIn.response.kind = "response"
  /\ ~Ok(gemIn.response.status)
  /\ gemPc' = "done"
  /\ gemOut' = Thrown("call failed", gemIn.response.status)
  /\ UNCHANGED <<gemIn, notGemini>>

\* fetch resolves with an ok response: the body is read
ResponseOk ==
  /\ gemPc = "fetching"
  /\ gemIn.response.kind = "response"
  /\ Ok(gemIn.response.status)
  /\ gemPc' = "reading"
  /\ UNCHANGED <<gemIn, gemOut, notGemini>>

\* reader.read() rejects: the await throws out of the function
ReadRejects ==
  /\ gemPc = "reading"
  /\ gemIn.response.body = "error"
  /\ gemPc' = "done"
  /\ gemOut' = Thrown("read failed", 0)
  /\ UNCHANGED <<gemIn, notGemini>>

\* the text is read, parsed and searched; the image is returned, or the
\* function throws when there is none
ReadDone ==
  /\ gemPc = "reading"
  /\ gemIn.response.body # "error"
  /\ LET rawText == readStream(gemIn.response)
         parsed == parseStreamJson(rawText)
         imageBase64 == extractInlineImage(parsed)
     IN  gemOut' = IF imageBase64.isNull \/ imageBase64.data = ""
                   THEN Thrown("no image in response", 0)
                   ELSE [kind |-> "return", value |-> imageBase64.data,
                         status |-> 0]
  /\ gemPc' = "done"
  /\ UNCHANGED <<gemIn, notGemini>>

GeminiNext ==
  \/ ThrowNoApiKey
  \/ ThrowNoPng
  \/ Fetch
  \/ FetchRejects
  \/ ResponseNotOk
  \/ ResponseOk
  \/ ReadRejects
  \/ ReadDone

\* ---- properties of requestGeminiImage ----
\* the payloads the response text decodes to
DecodedPayloads ==
  LET decoded == parseStreamJson(readStream(gemIn.response))
  IN  {decoded[i] : i \in 1..Len(decoded)}

\* the inline image data found anywhere in a payload
ImagesOf(item) ==
  UNION {{item.candidates[c].parts[p] :
            p \in {q \in 1..Len(item.candidates[c].parts) :
                     item.candidates[c].parts[q] # ""}} :
         c \in 1..Len(item.candidates)}

GotResponse ==
  gemIn.apiKey /\ gemIn.pngBase64 /\ gemIn.response.kind = "response"

\* C24: a finished requestGeminiImage has returned or thrown; it returned
\* only if the response status is in 200..299 and the returned string is
\* the non-empty inline image data of some decoded payload; a response
\* outside 200..299 made it throw an error carrying that status; an ok
\* response whose payloads hold no image data made it throw.
C24_ImageOnlyFromOkResponse ==
  gemPc = "done" =>
    /\ gemOut.kind \in {"return", "throw"}
    /\ gemOut.kind = "return" =>
         /\ GotResponse
         /\ gemIn.response.status \in 200..299
         /\ gemIn.response.body = "text"
         /\ gemOut.value # ""
         /\ \E item \in DecodedPayloads : gemOut.value \in ImagesOf(item)
    /\ (GotResponse /\ gemIn.response.status \notin 200..299) =>
         /\ gemOut.kind = "throw"
         /\ gemOut.status = gemIn.response.status
    /\ (GotResponse /\ \A item \in DecodedPayloads : ImagesOf(item) = {}) =>
         gemOut.kind = "throw"

\* an ok response of two lines, the first a payload without image data,
\* the second a "data:" line whose image is the second part: returned
C24_Witness ==
  /\ gemPc = "done"
  /\ gemOut.kind = "return"
  /\ gemOut.value = "img3"
  /\ gemIn.response.status = 204
  /\ gemIn.response.text.shape = "lines"
  /\ Len(gemIn.response.text.lines) = 2
  /\ gemIn.response.text.lines[1].kind = "json"
  /\ ImagesOf(gemIn.response.text.lines[1].value) = {}
  /\ gemIn.response.text.lines[2].prefix

(***************************************************************************)
(* getDosTime, getDosDate over every time of day and every calendar day    *)
(***************************************************************************)
IsLeap(y) == (y % 4 = 0 /\ y % 100 # 0) \/ y % 400 = 0

\* days of month m (getMonth(): 0 .. 11) of year y
DaysIn(y, m) ==
  IF m = 1 THEN (IF IsLeap(y) THEN 29 ELSE 28)
  ELSE IF m \in {3, 5, 8, 10} THEN 30
  ELSE 31

DosYears == 1980..2107

\* the local fields a Date can have: every hour and minute with the
\* seconds at the ends of the minute, on one day; and the first, middle
\* and last days of every month of DosYears, at one time
DosNows ==
  {[year |-> 1980, month |-> 0, day |-> 1, hours |-> h, minutes |-> mi,
    seconds |-> s] : h \in 0..23, mi \in 0..59, s \in {0, 1, 2, 57, 58, 59}}
    \cup UNION {UNION {{[year |-> y, month |-> mo, day |-> d, hours |-> 23,
                         minutes |-> 59, seconds |-> 59] :
                          d \in {1, 2, 16, 28, DaysIn(y, mo)}} :
                       mo \in 0..11} :
                y \in DosYears}

NoStamp == [time |-> -1, date |-> -1]

DosIdle ==
  /\ dosNow = [year |-> 1980, month |-> 0, day |-> 1, hours |-> 0,
               minutes |-> 0, seconds |-> 0]
  /\ dosStamp = NoStamp

DosInit ==
  /\ dosNow \in DosNows
  /\ dosStamp = NoStamp

\* const dosTime = getDosTime(new Date())
StampTime ==
  /\ dosStamp.time = -1
  /\ dosStamp' = [dosStamp EXCEPT !.time = getDosTime(dosNow)]
  /\ UNCHANGED <<dosNow, notDos>>

\* const dosDate = getDosDate(new Date())
StampDate ==
  /\ dosStamp.time # -1
  /\ dosStamp.date = -1
  /\ dosStamp' = [dosStamp EXCEPT !.date = getDosDate(dosNow)]
  /\ UNCHANGED <<dosNow, notDos>>

DosNext == StampTime \/ StampDate

\* ---- properties of the packed time and date ----
\* the fields read back from the two 16-bit values
UnpackTime(t) ==
  [hours |-> t \div 2048, minutes |-> (t \div 32) % 64,
   seconds |-> 2 * (t % 32)]

UnpackDate(v) ==
  [year |-> 1980 + (v \div 512), month |-> (v \div 32) % 16, day |-> v % 32]

\* C25: for every date and time with year in 1980..2107, the packed time
\* is hours*2048 + minutes*32 + floor(seconds/2) and the packed date is
\* (year-1980)*512 + month*32 + day with month counted from 1; both lie
\* in 0..65535, every field is below the width of its bit field, and
\* unpacking gives back year, month, day, hour and minute, and the second
\* rounded down to an even value.
C25_DosPacking ==
  (dosNow.year \in 1980..2107 /\ dosStamp.date # -1) =>
    LET h == dosNow.hours
        mi == dosNow.minutes
        s == dosNow.seconds
        y == dosNow.year
        mo == dosNow.month + 1
        d == dosNow.day
    IN  /\ dosStamp.time = h * 2048 + mi * 32 + (s \div 2)
        /\ dosStamp.date = (y - 1980) * 512 + mo * 32 + d
        /\ dosStamp.time \in 0..65535
        /\ dosStamp.date \in 0..65535
        /\ s \div 2 < 32 /\ mi < 64 /\ h < 32
        /\ d < 32 /\ mo < 16 /\ y - 1980 < 128
        /\ UnpackTime(dosStamp.time) =
             [hours |-> h, minutes |-> mi, seconds |-> s - (s % 2)]
        /\ UnpackDate(dosStamp.date) = [year |-> y, month |-> mo, day |-> d]

\* the last day and second the format holds: 2107-12-31 23:59:59
C25_Witness ==
  /\ dosNow = [year |-> 2107, month |-> 11, day |-> 31, hours |-> 23,
               minutes |-> 59, seconds |-> 59]
  /\ dosStamp = [time |-> 49021, date |-> 65439]

(***************************************************************************)
(* scaleForSaver                                                           *)
(*                                                                         *)
(* scale is kept as the exact fraction <<numerator, denominator>>.  The    *)
(* code multiplies doubles: the product differs from the exact value by a  *)
(* relative error near 2^-52, which moves Math.round only where the exact  *)
(* value is a tie k + 1/2, and there to either neighbour.                  *)
(***************************************************************************)
targetWidth == 1000
\* maxHeight of scaleForSaver
scaleMaxHeight == 2048

MaxSide == 6

\* naturalWidth and naturalHeight of a loaded image
ImageSides == (1..MaxSide) \cup {499, 500, 999, 1000, 1001, 2047, 2048, 2049,
                                 4096, 100000}

\* mutant of ScaleOf: the image is always fitted to the height
ScaleOf_HeightOnly(img) == <<scaleMaxHeight, img.height>>

\* Math.min(targetWidth / (img.width || 1), scaleMaxHeight / (img.height || 1))
ScaleOf(img) ==
  LET w == IF img.width = 0 THEN 1 ELSE img.width
      h == IF img.height = 0 THEN 1 ELSE img.height
  IN  IF targetWidth * h <= scaleMaxHeight * w
      THEN <<targetWidth, w>>
      ELSE <<scaleMaxHeight, h>>

\* the values Math.round(side * scale) can take
Rounded(side, scale) ==
  LET num == side * scale[1]
      den == scale[2]
      up == (2 * num + den) \div (2 * den)
  IN  IF (2 * num) % den = 0 /\ ((2 * num) \div den) % 2 = 1
      THEN {up - 1, up}
      ELSE {up}

ScaleIdle ==
  /\ scaleImg = [width |-> 1, height |-> 1]
  /\ scaled = [width |-> 0, height |-> 0]

ScaleInit ==
  /\ scaleImg \in [width : ImageSides, height : ImageSides]
  /\ scaled = [width |-> 0, height |-> 0]

\* scaleForSaver(img)
ScaleForSaver ==
  /\ scaled = [width |-> 0, height |-> 0]
  /\ \E rw \in Rounded(scaleImg.width, ScaleOf(scaleImg)),
        rh \in Rounded(scaleImg.height, ScaleOf(scaleImg)) :
       LET width == MaxOf({1, rw})
           height == MaxOf({1, rh})
       IN  scaled' = [width |-> width,
                      height |-> IF height < scaleMaxHeight THEN height
                                 ELSE scaleMaxHeight]
  /\ UNCHANGED <<scaleImg, notScale>>

ScaleNext == ScaleForSaver

\* C26: for every image with positive integer sides, scaleForSaver returns
\* a width in 1..1000 and a height in 1..2048.
C26_ScaledWithinSlot ==
  (scaled # [width |-> 0, height |-> 0]
     /\ scaleImg.width >= 1 /\ scaleImg.height >= 1) =>
    /\ scaled.width \in 1..1000
    /\ scaled.height \in 1..2048

\* a wide strip: 100000 x 1 comes out as 1000 x 1, the height raised from
\* the rounded 0 to 1
C26_Witness ==
  /\ scaleImg = [width |-> 100000, height |-> 1]
  /\ scaled = [width |-> 1000, height |-> 1]

(***************************************************************************)
(* buildSheets of src/popup.js: tiles are laid out in rows of cols tiles   *)
(***************************************************************************)
\* pushed sheets are kept up to this many: the loop itself has no limit
MaxRowSheets == 3

RowsIdle ==
  /\ rbTiles = <<>>
  /\ rbSorted = <<>>
  /\ idx = 0
  /\ rows = <<>>
  /\ usedHeight = 0
  /\ rbSheets = <<>>
  /\ rbPc = "idle"

\* the call, up to the first test of the outer while
RowsInit ==
  /\ rbTiles \in TileLists
  /\ rbSorted = SortTiles(rbTiles)
  /\ idx = 0
  /\ rows = <<>>
  /\ usedHeight = 0
  /\ rbSheets = <<>>
  /\ rbPc = "outer"

\* sortedTiles.slice(idx, idx + cols)
RowSlice ==
  SubSeq(rbSorted, idx + 1,
         IF idx + cols < Len(rbSorted) THEN idx + cols ELSE Len(rbSorted))

RowHeight(rowTiles) == MaxOf({rowTiles[k].height : k \in 1..Len(rowTiles)})

\* while (idx < sortedTiles.length) { const rows = []; let usedHeight = 0;
RowOpenSheet ==
  /\ rbPc = "outer"
  /\ idx < Len(rbSorted)
  /\ Len(rbSheets) < MaxRowSheets
  /\ rows' = <<>>
  /\ usedHeight' = 0
  /\ rbPc' = "inner"
  /\ UNCHANGED <<rbTiles, rbSorted, idx, rbSheets>>
  /\ UNCHANGED notRows

\* one pass of the inner while body that pushes a row
RowAdd ==
  /\ rbPc = "inner"
  /\ idx < Len(rbSorted)
  /\ LET rowTiles == RowSlice
         rowHeight == RowHeight(rowTiles)
         needed == (IF rows # <<>> THEN rowGap ELSE 0) + rowHeight
     IN  /\ ~(rows # <<>> /\ usedHeight + needed > maxHeight)
         /\ ~(rows = <<>> /\ rowHeight > maxHeight)
         /\ rows' = Append(rows, [tiles |-> rowTiles, height |-> rowHeight])
         /\ usedHeight' = usedHeight + needed
         /\ idx' = idx + Len(rowTiles)
         /\ rbPc' = IF usedHeight + needed >= maxHeight THEN "render"
                    ELSE "inner"
  /\ UNCHANGED <<rbTiles, rbSorted, rbSheets>>
  /\ UNCHANGED notRows

\* the inner while ends without a push: its condition fails, or one of the
\* two breaks before rows.push is taken
RowBreak ==
  /\ rbPc = "inner"
  /\ IF idx >= Len(rbSorted) THEN TRUE
     ELSE LET rowHeight == RowHeight(RowSlice)
              needed == (IF rows # <<>> THEN rowGap ELSE 0) + rowHeight
          IN  \/ rows # <<>> /\ usedHeight + needed > maxHeight
              \/ rows = <<>> /\ rowHeight > maxHeight
  /\ rbPc' = "render"
  /\ UNCHANGED <<rbTiles, rbSorted, idx, rows, usedHeight, rbSheets>>
  /\ UNCHANGED notRows

\* y of row r (from 1): the heights of the rows above and a rowGap each
RECURSIVE RowTop(_)
RowTop(r) == IF r = 1 THEN 0 ELSE RowTop(r - 1) + rows[r - 1].height + rowGap

\* the placements rows.forEach pushes, row by row and column by column
RECURSIVE RowPlacements(_)
RowPlacements(r) ==
  IF r > Len(rows) THEN <<>>
  ELSE [c \in 1..Len(rows[r].tiles) |->
          LET tile == rows[r].tiles[c]
          IN  [tile |-> tile.id,
               x |-> xPositions(c - 1) + ((cellWidth - tile.width) \div 2),
               y |-> RowTop(r) + ((rows[r].height - tile.height) \div 2),
               width |-> tile.width, height |-> tile.height]]
         \o RowPlacements(r + 1)

\* the canvas is drawn and sheets.push({ canvas, placements })
RowPushSheet ==
  /\ rbPc = "render"
  /\ rbSheets' = Append(rbSheets, RowPlacements(1))
  /\ rbPc' = "outer"
  /\ UNCHANGED <<rbTiles, rbSorted, idx, rows, usedHeight>>
  /\ UNCHANGED notRows

\* the outer while ends: return sheets
RowReturn ==
  /\ rbPc = "outer"
  /\ idx >= Len(rbSorted)
  /\ rbPc' = "returned"
  /\ UNCHANGED <<rbTiles, rbSorted, idx, rows, usedHeight, rbSheets>>
  /\ UNCHANGED notRows

RowsNext ==
  \/ RowOpenSheet
  \/ RowAdd
  \/ RowBreak
  \/ RowPushSheet
  \/ RowReturn

\* ---- properties of the row-based buildSheets ----
\* the tiles the rows of the sheet being filled have taken: how far idx
\* has moved since the sheet was opened
RowsTaken == SeqSum([r \in 1..Len(rows) |-> Len(rows[r].tiles)])

\* C29: every iteration of the outer while loop advances idx by at least
\* one tile: when a sheet is pushed, its rows have taken a tile.
C29_OuterLoopAdvances ==
  [][Len(rbSheets') > Len(rbSheets) => RowsTaken >= 1]_vars

(***************************************************************************)
(* Specifications                                                          *)
(***************************************************************************)
InitPack == PackInit /\ ThrottleIdle /\ NamesIdle /\ CrcIdle /\ ZipIdle /\ RunIdle /\ GeminiIdle /\ DosIdle /\ ScaleIdle /\ RowsIdle
SpecPack == InitPack /\ [][PackNext]_vars
\* buildSheets is synchronous code: once entered, it runs on
SpecPackLive == InitPack /\ [][PackNext]_vars /\ WF_vars(PackNext)

InitThrottle == ThrottleInit /\ PackIdle /\ NamesIdle /\ CrcIdle /\ ZipIdle /\ RunIdle /\ GeminiIdle /\ DosIdle /\ ScaleIdle /\ RowsIdle
SpecThrottle == InitThrottle /\ [][ThrottleNext]_vars

InitNames == NamesInit /\ PackIdle /\ ThrottleIdle /\ CrcIdle /\ ZipIdle /\ RunIdle /\ GeminiIdle /\ DosIdle /\ ScaleIdle /\ RowsIdle
SpecNames == InitNames /\ [][NamesNext]_vars

InitCrc == CrcInit /\ PackIdle /\ ThrottleIdle /\ NamesIdle /\ ZipIdle /\ RunIdle /\ GeminiIdle /\ DosIdle /\ ScaleIdle /\ RowsIdle
SpecCrc == InitCrc /\ [][CrcNext]_vars

InitZip == ZipInit /\ PackIdle /\ ThrottleIdle /\ NamesIdle /\ CrcIdle /\ RunIdle /\ GeminiIdle /\ DosIdle /\ ScaleIdle /\ RowsIdle
SpecZip == InitZip /\ [][ZipNext]_vars

InitRun == RunInit /\ PackIdle /\ ThrottleIdle /\ NamesIdle /\ CrcIdle /\ ZipIdle /\ GeminiIdle /\ DosIdle /\ ScaleIdle /\ RowsIdle
SpecRun == InitRun /\ [][RunNext]_vars
SpecRerun == InitRun /\ [][RerunNext]_vars
\* every awaited operation settles and every continuation is run; the last
\* conjunct is weak fairness of SaverPack, which is enabled exactly in the
\* states PackReady
SpecRerunLive ==
  /\ InitRun
  /\ [][RerunNext]_vars
  /\ WF_vars(RunAwaits)
  /\ ([]<>~PackReady \/ []<><<SaverPack>>_vars)

InitGemini == GeminiInit /\ PackIdle /\ ThrottleIdle /\ NamesIdle /\ CrcIdle /\ ZipIdle /\ RunIdle /\ DosIdle /\ ScaleIdle /\ RowsIdle
SpecGemini == InitGemini /\ [][GeminiNext]_vars

InitDos == DosInit /\ PackIdle /\ ThrottleIdle /\ NamesIdle /\ CrcIdle /\ ZipIdle /\ RunIdle /\ GeminiIdle /\ ScaleIdle /\ RowsIdle
SpecDos == InitDos /\ [][DosNext]_vars

InitScale == ScaleInit /\ PackIdle /\ ThrottleIdle /\ NamesIdle /\ CrcIdle /\ ZipIdle /\ RunIdle /\ GeminiIdle /\ DosIdle /\ RowsIdle
SpecScale == InitScale /\ [][ScaleNext]_vars

InitRows == RowsInit /\ PackIdle /\ ThrottleIdle /\ NamesIdle /\ CrcIdle /\ ZipIdle /\ RunIdle /\ GeminiIdle /\ DosIdle /\ ScaleIdle
SpecRows == InitRows /\ [][RowsNext]_vars

====
